---------------------------- MODULE Spec2Model ----------------------------
(***************************************************************************)
(* Vibe-Scape server: the place store (controllers/place_controller.py),   *)
(* the cache-first fallback search (services/fallback_service.py) with the *)
(* scraper and the enrichment it calls (scraper/reddit_scraper.py,         *)
(* RAG/llm_processor.py), the review relevance refiner                     *)
(* (scraper/review_refiner.py), the intent classifier                      *)
(* (RAG/intent_classifier.py) and the flow controller                      *)
(* (RAG/flow_controller.py).                                               *)
(*                                                                         *)
(* Specifications:                                                         *)
(*   Spec        searches and add_place calls, one after the other         *)
(*   SpecStore   add_place and bulk_insert_places, one after the other     *)
(*   SpecConc    add_place and bulk_insert_places calls in progress at the *)
(*               same time, interleaved at every store operation           *)
(*   SpecRefine  one refine_reviews_with_llm call, step by step            *)
(*   SpecFilter  one filter_relevant_reviews_batched call                  *)
(*   SpecEnrich  process_place_reviews and _get_default_processing calls,  *)
(*               in a server that may be started again between calls       *)
(*   SpecFlow    one process_query call                                    *)
(*                                                                         *)
(* Python strings are TLA+ strings; TLC treats a string as the sequence of *)
(* its one-character strings, so Len, SubSeq and \o compute on them.       *)
(* A place document keeps the fields the code reads or compares            *)
(* (_id, original.fsq_id/name/category/city, processed, reviews); the      *)
(* fields that are only copied through (address, locality, country,        *)
(* photo_url, coordinates, created_at, updated_at) are left out.           *)
(* The outside world (the place-search provider, Reddit, the LLM gateway,  *)
(* a failing store) answers every request with any of a fixed set of       *)
(* answers.                                                                *)
(***************************************************************************)
EXTENDS Integers, Sequences, FiniteSets, TLC

VARIABLES
    places,     \* mongo.db.places: the stored documents, in insertion order
    nextId,     \* the next ObjectId the store hands out
    last,       \* the last finished call: its arguments, locals and return value
    hashSeed,   \* the interpreter's string-hash seed (fixes the iteration order of sets)
    wpc,        \* concurrent workers: position of each worker in its call
    wargs,      \* concurrent workers: the places_data of each worker's call
    wdocs,      \* concurrent workers: the place_docs each worker has collected
    refiner,    \* one refine_reviews_with_llm call: its arguments, locals and position
    filt,       \* one filter_relevant_reviews_batched call: its arguments and result
    enr,        \* the last enrichment call: its arguments, gateway requests and result
    flow,       \* the last query: the classifier's result and process_query's response
    req         \* the external request a call is waiting on, and the provider that is silent

vars == <<places, nextId, last, hashSeed, wpc, wargs, wdocs, refiner, filt, enr, flow, req>>

----------------------------------------------------------------------------
(* Bounds of the model *)

MaxPlaces == 2      \* documents the store may hold
MaxBatch  == 2      \* length of a places_data batch
MaxCand   == 2      \* candidates one provider answer may carry
MaxMin    == 2      \* largest min_results a search is called with
NWorkers  == 2      \* requests in progress at the same time
MaxPool        == 2     \* length of initial_reviews and of a fetched list
MaxIterations  == 2     \* largest max_iterations of a refiner
MaxMinRelevant == 3     \* largest min_relevant_reviews of a refiner
MaxReviews     == 17    \* longest list handed to the batched filter alone

----------------------------------------------------------------------------
(* Python string and list helpers *)

RECURSIVE SeqRange(_)
SeqRange(s) == IF s = <<>> THEN {} ELSE {Head(s)} \cup SeqRange(Tail(s))

UpperCase == "ABCDEFGHIJKLMNOPQRSTUVWXYZ"
LowerCase == "abcdefghijklmnopqrstuvwxyz"

\* the i-th character of a string
CharAt(s, i) == SubSeq(s, i, i)

LowerTable == [c \in {CharAt(UpperCase, i) : i \in 1..26} |->
                  CharAt(LowerCase, CHOOSE i \in 1..26 : CharAt(UpperCase, i) = c)]
UpperTable == [c \in {CharAt(LowerCase, i) : i \in 1..26} |->
                  CharAt(UpperCase, CHOOSE i \in 1..26 : CharAt(LowerCase, i) = c)]

LowerChar(c) == IF c \in DOMAIN LowerTable THEN LowerTable[c] ELSE c
UpperChar(c) == IF c \in DOMAIN UpperTable THEN UpperTable[c] ELSE c

\* str.lower() and str.upper()
RECURSIVE Lower(_)
Lower(s) == IF Len(s) = 0 THEN "" ELSE LowerChar(Head(s)) \o Lower(Tail(s))

RECURSIVE Upper(_)
Upper(s) == IF Len(s) = 0 THEN "" ELSE UpperChar(Head(s)) \o Upper(Tail(s))

\* needle in hay
IsSubstr(needle, hay) ==
    \E i \in 1..(Len(hay) - Len(needle) + 1) :
        SubSeq(hay, i, i + Len(needle) - 1) = needle

\* the indices 1..Len(s) as a list, for comprehensions that filter by position
Indices(s) == [i \in 1..Len(s) |-> i]

----------------------------------------------------------------------------
(* The data the model draws its inputs from *)

NoProcessed == [vibe_tags |-> <<>>, emojis |-> <<>>, summary |-> ""]

PlaceData(fsq, name, category, city, processed, reviews) ==
    [original  |-> [fsq_id |-> fsq, name |-> name, category |-> category, city |-> city],
     processed |-> processed,
     reviews   |-> reviews]

\* place_data documents handed to add_place and bulk_insert_places:
\* two different documents under the key "t1", one under "t2", one without a key
PlaceInputs ==
    { PlaceData("t1", "Brew Cafe", "cafe", "Delhi",
                [vibe_tags |-> <<"cozy">>, emojis |-> <<"c">>, summary |-> "s1"], <<>>),
      PlaceData("t1", "Joe", "Coffee Shop", "Mumbai", NoProcessed, <<>>),
      PlaceData("t2", "Joe", "cafe", "Delhi", NoProcessed, <<>>),
      PlaceData("", "Nameless", "cafe", "Delhi", NoProcessed, <<>>) }

RECURSIVE SeqsUpTo(_, _)
SeqsUpTo(S, n) ==
    IF n = 0 THEN {<<>>}
    ELSE SeqsUpTo(S, n - 1) \cup
         {Append(s, x) : s \in {t \in SeqsUpTo(S, n - 1) : Len(t) = n - 1}, x \in S}

Batches == SeqsUpTo(PlaceInputs, MaxBatch)

----------------------------------------------------------------------------
(* controllers/place_controller.py *)

\* last while no call is in progress or waiting to be read
NoCall == [op |-> "none"]

\* mongo.db.places.find_one({"original.fsq_id": fsq_id}) is not None
find_one_fsq(store, fsq_id) ==
    \E i \in 1..Len(store) : store[i].original.fsq_id = fsq_id

\* the place_doc both add_place and bulk_insert_places build from place_data
place_doc(place_data) ==
    [original  |-> place_data.original,
     processed |-> place_data.processed,
     reviews   |-> place_data.reviews]

\* insert_one / insert_many: every document gets a fresh _id, in order
WithId(doc, id) ==
    [_id |-> id, original |-> doc.original, processed |-> doc.processed,
     reviews |-> doc.reviews]

insert_many(store, docs, firstId) ==
    store \o [i \in 1..Len(docs) |-> WithId(docs[i], firstId + i - 1)]

inserted_ids(docs, firstId) == [i \in 1..Len(docs) |-> firstId + i - 1]

\* lines 9-13 and 41-47: no fsq_id, or a place with this fsq_id is stored
SkipPlace(store, place_data) ==
    \/ place_data.original.fsq_id = ""
    \/ find_one_fsq(store, place_data.original.fsq_id)

\* bulk_insert_places without the "already exists" check of line 46
bulk_place_docs_NoExistsCheck(store, places_data) ==
    LET kept == SelectSeq(places_data, LAMBDA d : d.original.fsq_id # "")
    IN  [i \in 1..Len(kept) |-> place_doc(kept[i])]

\* lines 39-66 of bulk_insert_places: the documents that pass both checks,
\* each check made against the store as it is while the loop runs
bulk_place_docs(store, places_data) ==
    LET kept == SelectSeq(places_data, LAMBDA d : ~SkipPlace(store, d))
    IN  [i \in 1..Len(kept) |-> place_doc(kept[i])]

add_place(place_data) ==
    /\ last = NoCall
    /\ IF SkipPlace(places, place_data)
       THEN /\ UNCHANGED <<places, nextId>>
            /\ last' = [op |-> "add_place", arg |-> <<place_data>>, pre |-> places,
                        raised |-> FALSE, ret |-> <<>>]
       ELSE /\ Len(places) < MaxPlaces
            /\ places' = insert_many(places, <<place_doc(place_data)>>, nextId)
            /\ nextId' = nextId + 1
            /\ last' = [op |-> "add_place", arg |-> <<place_data>>, pre |-> places,
                        raised |-> FALSE, ret |-> <<nextId>>]
    /\ UNCHANGED <<hashSeed, wpc, wargs, wdocs, refiner, filt, enr, flow, req>>

bulk_insert_places(places_data) ==
    LET docs == bulk_place_docs(places, places_data) IN
    /\ last = NoCall
    /\ Len(places) + Len(docs) <= MaxPlaces
    /\ places' = insert_many(places, docs, nextId)
    /\ nextId' = nextId + Len(docs)
    /\ last' = [op |-> "bulk_insert_places", arg |-> places_data, pre |-> places,
                raised |-> FALSE, ret |-> inserted_ids(docs, nextId)]
    /\ UNCHANGED <<hashSeed, wpc, wargs, wdocs, refiner, filt, enr, flow, req>>

----------------------------------------------------------------------------
(* Python dict and str helpers used by the services *)

\* d.get(k, default)
Get(d, k, default) == IF k \in DOMAIN d THEN d[k] ELSE default

\* lst[:n]
Take(lst, n) == SubSeq(lst, 1, IF n < Len(lst) THEN n ELSE Len(lst))

IsSpace(c) == c \in {" ", "\n", "\t", "\r"}

RECURSIVE LStrip(_)
LStrip(s) == IF Len(s) > 0 /\ IsSpace(Head(s)) THEN LStrip(Tail(s)) ELSE s

RECURSIVE RStrip(_)
RStrip(s) ==
    IF Len(s) > 0 /\ IsSpace(SubSeq(s, Len(s), Len(s)))
    THEN RStrip(SubSeq(s, 1, Len(s) - 1)) ELSE s

\* str.strip()
Strip(s) == RStrip(LStrip(s))

\* sep.join(parts)
RECURSIVE Join(_, _)
Join(sep, parts) ==
    IF Len(parts) = 0 THEN ""
    ELSE IF Len(parts) = 1 THEN parts[1]
    ELSE parts[1] \o sep \o Join(sep, Tail(parts))

\* list(set(...)): CPython iterates a set of strings in an order fixed by the
\* interpreter's hash seed; each seed is modelled by one order of the tags
TagOrder ==
    <<"accessible", "aesthetic", "caffeinated", "cozy", "culinary", "dining",
      "local", "nature", "nightlife", "outdoor", "social", "vibrant">>

HashSeeds == {1, 2}

SetOrder(seed) ==
    IF seed = 1 THEN TagOrder
    ELSE [i \in 1..Len(TagOrder) |-> TagOrder[Len(TagOrder) + 1 - i]]

list_of_set(S, seed) == SelectSeq(SetOrder(seed), LAMBDA t : t \in S)

----------------------------------------------------------------------------
(* RAG/llm_processor.py *)

AnyIn(words, text) == \E w \in words : IsSubstr(w, text)

_get_default_processing(place_name, place_category, seed) ==
    LET name_lower     == Lower(place_name)
        category_lower == Lower(place_category)
        name_tags ==
            (IF AnyIn({"coffee", "cafe", "brew"}, name_lower)
             THEN {"cozy", "caffeinated"} ELSE {})
            \cup (IF AnyIn({"restaurant", "dining", "bistro"}, name_lower)
                  THEN {"dining", "culinary"} ELSE {})
            \cup (IF AnyIn({"bar", "pub", "tavern"}, name_lower)
                  THEN {"social", "nightlife"} ELSE {})
            \cup (IF AnyIn({"park", "garden"}, name_lower)
                  THEN {"outdoor", "nature"} ELSE {})
        category_tags ==
            IF category_lower = "cafe" THEN {"cozy", "caffeinated", "social"}
            ELSE IF category_lower = "restaurant"
                 THEN {"dining", "culinary", "social", "aesthetic"}
            ELSE IF category_lower = "bar" THEN {"nightlife", "social", "vibrant"}
            ELSE {"local", "accessible"}
        emojis ==
            IF category_lower = "cafe" THEN <<":coffee:", ":chair:">>
            ELSE IF category_lower = "restaurant" THEN <<":plate:", ":cook:">>
            ELSE IF category_lower = "bar" THEN <<":beer:", ":party:">>
            ELSE <<":pin:", ":store:">>
    IN  [summary   |-> "A " \o place_category \o " in the area. " \o place_name
                       \o " offers a local experience with mixed reviews from visitors.",
         vibe_tags |-> Take(list_of_set(name_tags \cup category_tags, seed), 5),
         emojis    |-> Take(emojis, 3)]

_infer_category_from_name(place_name) ==
    LET name_lower == Lower(place_name) IN
    IF AnyIn({"cafe", "coffee", "brew"}, name_lower) THEN "cafe"
    ELSE IF AnyIn({"restaurant", "dining", "bistro"}, name_lower) THEN "restaurant"
    ELSE IF AnyIn({"bar", "pub", "tavern"}, name_lower) THEN "bar"
    ELSE IF AnyIn({"park", "garden"}, name_lower) THEN "park"
    ELSE "place"

\* A gateway answer is a raised exception with its message or a response text.
\* A response text is described by what _parse_llm_response looks at: whether
\* it holds a "{", whether it holds a "}", and what json.loads makes of the
\* span between them: JsonInvalid, or the decoded object (a function from the
\* keys present to their values). nolen names the keys whose decoded value is
\* null or a number, which has no len(); such a value is written <<>> in data.
Raise(msg) == [kind |-> "raise", msg |-> msg]
Text(t)    == [kind |-> "text", text |-> t]

JsonInvalid == [json |-> "invalid"]

_parse_llm_response(response_text, seed) ==
    IF response_text.open /\ response_text.close /\ response_text.data # JsonInvalid
    THEN [summary   |-> Get(response_text.data, "summary", ""),
          vibe_tags |-> Get(response_text.data, "vibe_tags", <<>>),
          emojis    |-> Get(response_text.data, "emojis", <<>>)]
    ELSE _get_default_processing("", "", seed)

\* line 24: the review texts joined by a blank line; a review without a
\* "content" key counts as the empty text
combined_reviews(reviews) ==
    Join("\n\n", [i \in 1..Len(reviews) |-> Get(reviews[i], "content", "")])

ShouldRetry_Always(msg) == TRUE

\* process_place_reviews without the test of line 26
process_place_reviews_NoBlankCheck(place_name, place_category, reviews, calls, seed) ==
    IF calls[1].kind = "text" THEN _parse_llm_response(calls[1].text, seed)
    ELSE _get_default_processing(place_name, place_category, seed)

\* line 47: the retry is decided on the text of the exception
ShouldRetry(msg) ==
    IsSubstr("timeout", Lower(msg)) \/ IsSubstr("connection", Lower(msg))

\* calls is the list of answers the gateway gives to this call's requests, in order
process_place_reviews(place_name, place_category, reviews, calls, seed) ==
    LET fallback == _get_default_processing(place_name, place_category, seed) IN
    IF Strip(combined_reviews(reviews)) = "" THEN fallback
    ELSE IF calls[1].kind = "text"
    THEN LET processed_data == _parse_llm_response(calls[1].text, seed) IN
         \* line 40 takes len() of both lists; a value without a length raises
         \* a TypeError, whose message names neither a timeout nor a connection
         IF /\ calls[1].text.open /\ calls[1].text.close
            /\ calls[1].text.data # JsonInvalid
            /\ calls[1].text.nolen \cap {"vibe_tags", "emojis"} # {}
         THEN fallback ELSE processed_data
    ELSE IF ShouldRetry(calls[1].msg)
    THEN IF calls[2].kind = "text"
         THEN _parse_llm_response(calls[2].text, seed)
         ELSE fallback
    ELSE fallback

\* the gateway requests process_place_reviews makes, each named by the
\* temperature it is sent with (generate_content's default is 0.7)
gateway_requests(reviews, calls) ==
    IF Strip(combined_reviews(reviews)) = "" THEN <<>>
    ELSE IF calls[1].kind = "text" THEN <<"0.7">>
    ELSE IF ShouldRetry(calls[1].msg) THEN <<"0.7", "0.1">>
    ELSE <<"0.7">>

\* the number of gateway requests process_place_reviews makes
gateway_calls(reviews, calls) == Len(gateway_requests(reviews, calls))

\* process_multiple_places: llm gives, for every place name, the gateway's answers
process_multiple_places(places_with_reviews, llm, seed) ==
    [place_name \in DOMAIN places_with_reviews |->
        process_place_reviews(place_name, _infer_category_from_name(place_name),
                              places_with_reviews[place_name], llm[place_name], seed)]

GoodText ==
    [open |-> TRUE, close |-> TRUE, nolen |-> {},
     data |-> [summary |-> "Cozy spot", vibe_tags |-> <<"cozy", "quiet">>,
               emojis |-> <<":coffee:">>]]

ProseText == [open |-> FALSE, close |-> FALSE, nolen |-> {}, data |-> JsonInvalid]

\* the gateway behaviours a search draws from: a parsable answer, an answer
\* without JSON, and a timeout followed by an API error on the retry
LLMBehaviours ==
    { <<Text(GoodText), Text(GoodText)>>,
      <<Text(ProseText), Text(ProseText)>>,
      <<Raise("Read timed out. (read timeout=15)"), Raise("OpenRouter API error: 500")>> }

----------------------------------------------------------------------------
(* scraper/reddit_scraper.py, with use_llm_refinement = False *)

Review(content, score) == [source |-> "reddit", content |-> content, score |-> score]

\* the three placeholder reviews, their texts shortened to the opening clause
_get_mock_reviews(place_name, city, max_results) ==
    Take(<<Review("Just visited " \o place_name \o " in " \o city
                  \o " and it was amazing!", 45),
           Review("Been to " \o place_name \o " multiple times now.", 32),
           Review("Honest review of " \o place_name \o ": reasonable for " \o city, 28)>>,
         max_results)

\* reviews.sort(key=score, reverse=True): a stable sort, largest score first
RECURSIVE InsertByScore(_, _)
InsertByScore(sorted, r) ==
    IF Len(sorted) = 0 THEN <<r>>
    ELSE IF Head(sorted).score >= r.score
         THEN <<Head(sorted)>> \o InsertByScore(Tail(sorted), r)
         ELSE <<r>> \o sorted

RECURSIVE SortByScore(_)
SortByScore(reviews) ==
    IF Len(reviews) = 0 THEN <<>>
    ELSE InsertByScore(SortByScore(SubSeq(reviews, 1, Len(reviews) - 1)),
                       reviews[Len(reviews)])

\* resp is the answer of the Reddit request: a failure (exception or a status
\* other than 200) or the reviews extracted from the posts, which are those
\* with more than 50 characters of content (line 69)
search_place_reviews(place_name, city, max_results, resp) ==
    IF resp.kind = "error" THEN _get_mock_reviews(place_name, city, max_results)
    ELSE IF Len(resp.reviews) = 0
         THEN _get_mock_reviews(place_name, city, max_results)
         ELSE Take(SortByScore(resp.reviews), max_results)

\* the answers of the Reddit request: a failure, posts of which none has
\* more than 50 characters of content, and two usable posts
RedditAnswers ==
    { [kind |-> "error"],
      [kind |-> "ok", reviews |-> <<>>],
      [kind |-> "ok",
       reviews |-> <<Review("Great place, the coffee is strong and the staff are friendly", 3),
                     Review("Loved it, quiet corner tables and good music all evening", 7)>>] }

\* the dict scrape_multiple_places builds: one entry per non-empty name, the
\* entry of a repeated name being the one written last; resps[i] answers the
\* request made for places[i]
scrape_multiple_places(tomtom_places, city, resps) ==
    LET names == {tomtom_places[i].name : i \in 1..Len(tomtom_places)} \ {""}
        lastIdx(n) == CHOOSE i \in 1..Len(tomtom_places) :
                        /\ tomtom_places[i].name = n
                        /\ \A j \in 1..Len(tomtom_places) :
                              tomtom_places[j].name = n => j <= i
    IN  [n \in names |-> search_place_reviews(n, city, 5, resps[lastIdx(n)])]

----------------------------------------------------------------------------
(* services/fallback_service.py *)

\* {"original.city": city, "original.category": {"$regex": category, "$options": "i"}}
\* and, when vibe_tags is non-empty, {"processed.vibe_tags": {"$in": vibe_tags}};
\* the categories of the model hold no regex metacharacter, so the regex
\* search is a case-insensitive substring test
MatchesQuery(doc, city, category, vibe_tags) ==
    /\ doc.original.city = city
    /\ IsSubstr(Lower(category), Lower(doc.original.category))
    /\ (Len(vibe_tags) > 0 =>
            SeqRange(doc.processed.vibe_tags) \cap SeqRange(vibe_tags) # {})

_search_existing_places(store, city, category, vibe_tags) ==
    SelectSeq(store, LAMBDA doc : MatchesQuery(doc, city, category, vibe_tags))

_map_category_to_query(category) ==
    LET c == Lower(category) IN
    CASE c = "cafe"       -> "cafe coffee"
      [] c = "restaurant" -> "restaurant food"
      [] c = "park"       -> "park"
      [] c = "bar"        -> "bar pub"
      [] c = "museum"     -> "museum"
      [] c = "shopping"   -> "shopping mall"
      [] c = "gym"        -> "gym fitness"
      [] c = "library"    -> "library"
      [] c = "theater"    -> "theater cinema"
      [] OTHER            -> category

\* answer is what tomtom_service.search_places does: raise, return None, or
\* return a list of candidates
_fetch_tomtom_places(answer) ==
    IF answer.kind = "list" THEN answer.places ELSE <<>>

\* the loop of line 196 skipping the candidates that have no name
places_to_insert_SkipNameless(tomtom_places, reddit_reviews, processed_data) ==
    LET named == SelectSeq(tomtom_places, LAMBDA place : place.name # "") IN
    [i \in 1..Len(named) |->
        [original  |-> [fsq_id |-> named[i].fsq_id, name |-> named[i].name,
                        category |-> named[i].category, city |-> named[i].city],
         processed |-> [vibe_tags |-> Get(Get(processed_data, named[i].name, <<>>),
                                          "vibe_tags", <<>>),
                        emojis    |-> Get(Get(processed_data, named[i].name, <<>>),
                                          "emojis", <<>>),
                        summary   |-> Get(Get(processed_data, named[i].name, <<>>),
                                          "summary", "")],
         reviews   |-> Get(reddit_reviews, named[i].name, <<>>)]]

\* lines 194-227: one place document per candidate, in candidate order
places_to_insert(tomtom_places, reddit_reviews, processed_data) ==
    [i \in 1..Len(tomtom_places) |->
        LET place      == tomtom_places[i]
            place_name == place.name
            llm_data   == Get(processed_data, place_name, <<>>)
        IN  [original  |-> [fsq_id |-> place.fsq_id, name |-> place_name,
                            category |-> place.category, city |-> place.city],
             processed |-> [vibe_tags |-> Get(llm_data, "vibe_tags", <<>>),
                            emojis    |-> Get(llm_data, "emojis", <<>>),
                            summary   |-> Get(llm_data, "summary", "")],
             reviews   |-> Get(reddit_reviews, place_name, <<>>)]]

RawPlace(fsq, name, category, city) ==
    [fsq_id |-> fsq, name |-> name, category |-> category, city |-> city]

\* provider candidates: one under a key place_controller inputs also use, two
\* with the same name, one with neither key nor name
Candidates ==
    { RawPlace("t2", "Joe", "Coffee Shop", "Delhi"),
      RawPlace("t3", "Joe", "cafe", "Delhi"),
      RawPlace("", "", "cafe", "Delhi") }

ProviderAnswers ==
    {[kind |-> "raise"], [kind |-> "none"]}
    \cup {[kind |-> "list", places |-> l] : l \in SeqsUpTo(Candidates, MaxCand)}

\* (city, category, vibe_tags) of the searches the model makes
SearchArgs ==
    { <<"Delhi", "cafe", <<>>>>,
      <<"Delhi", "cafe", <<"cozy">>>> }

\* line 42 with > for >=
HasEnough_Strict(existing_places, min_results) == Len(existing_places) > min_results

\* line 42: the cache holds enough
HasEnough(existing_places, min_results) == Len(existing_places) >= min_results

\* line 56 left out
NoCandidates_Never(tomtom_places) == FALSE

\* line 56: not tomtom_places
NoCandidates(tomtom_places) == Len(tomtom_places) = 0

\* lines 44-50, 58-64 and 89-98: the three results of a successful search
DatabaseResult(existing_places) ==
    [success |-> TRUE, source |-> "database", places |-> existing_places,
     count |-> Len(existing_places), fallback_used |-> FALSE]

DatabaseOnlyResult(existing_places) ==
    [success |-> TRUE, source |-> "database_only", places |-> existing_places,
     count |-> Len(existing_places), fallback_used |-> FALSE]

FallbackResult(existing_places, places_with_reviews, tomtom_places, reddit_reviews) ==
    LET all_places == existing_places \o places_with_reviews IN
    [success |-> TRUE, source |-> "database_and_tomtom", places |-> all_places,
     count |-> Len(all_places), fallback_used |-> TRUE,
     tomtom_fetched |-> Len(tomtom_places),
     reddit_reviews_scraped |-> Cardinality(DOMAIN reddit_reviews),
     tripadvisor_reviews_scraped |-> 0]

\* a handler that swallows the exception and reports an empty success
ErrorResult_Swallow(e) ==
    [success |-> TRUE, source |-> "database_only", places |-> <<>>, count |-> 0,
     fallback_used |-> FALSE]

\* lines 100-107: what the handler of the outer try returns for exception e
ErrorResult(e) ==
    [success |-> FALSE, error |-> e.msg, places |-> <<>>, count |-> 0]

\* the exception insert_many raises when the store fails
StoreError == Raise("insert_many failed")

\* a search that made no request to Reddit
NoAnswer == [kind |-> "not asked"]
NoReviews == [unused |-> <<>>]

\* the record of one search: its arguments, the store it started from, its
\* locals, the calls it made to its collaborators, and what it returned
SearchLog(city, category, vibe_tags, min_results, existing, asked, answer, tomtom_places, reddit, reddit_reviews, processed_data, scrapes, enrichments, bulk_calls, bulk_raised, new_places, ret) ==
    [op |-> "search", city |-> city, category |-> category, vibe_tags |-> vibe_tags,
     min_results |-> min_results, pre |-> places, existing |-> existing,
     asked |-> asked, answer |-> answer, tomtom_places |-> tomtom_places,
     reddit |-> reddit, reddit_reviews |-> reddit_reviews,
     processed_data |-> processed_data,
     scrapes |-> scrapes, enrichments |-> enrichments, bulk_calls |-> bulk_calls,
     bulk_raised |-> bulk_raised, new_places |-> new_places, ret |-> ret]

\* the body of search_places_with_fallback: what it does to the store and
\* what it returns, recorded in last
search_step(city, category, vibe_tags, min_results) ==
    LET existing_places == _search_existing_places(places, city, category, vibe_tags)
        Log(asked, answer, tomtom_places, reddit, reddit_reviews, processed_data,
            scrapes, enrichments, bulk_calls, bulk_raised, new_places, ret) ==
            SearchLog(city, category, vibe_tags, min_results, existing_places, asked,
                      answer, tomtom_places, reddit, reddit_reviews, processed_data,
                      scrapes, enrichments, bulk_calls, bulk_raised, new_places, ret)
    IN
    /\ IF HasEnough(existing_places, min_results)
       THEN /\ last' = Log(<<>>, "not asked", <<>>, NoAnswer, NoReviews, NoReviews, 0, 0, 0, FALSE, <<>>,
                           DatabaseResult(existing_places))
            /\ UNCHANGED <<places, nextId>>
       ELSE \E answer \in ProviderAnswers :
            LET asked == <<[query    |-> _map_category_to_query(category),
                            location |-> city,
                            limit    |-> min_results - Len(existing_places)]>>
                tomtom_places == _fetch_tomtom_places(answer)
            IN
            IF NoCandidates(tomtom_places)
            THEN /\ last' = Log(asked, answer.kind, tomtom_places, NoAnswer, NoReviews, NoReviews, 0, 0, 0,
                                FALSE, <<>>,
                                DatabaseOnlyResult(existing_places))
                 /\ UNCHANGED <<places, nextId>>
            ELSE \E resp \in RedditAnswers, calls \in LLMBehaviours,
                    store_fails \in BOOLEAN :
                 LET reddit_reviews ==
                         scrape_multiple_places(tomtom_places, city,
                             [i \in 1..Len(tomtom_places) |-> resp])
                     scrapes == Cardinality({i \in 1..Len(tomtom_places) :
                                                tomtom_places[i].name # ""})
                     processed_data ==
                         process_multiple_places(reddit_reviews,
                             [n \in DOMAIN reddit_reviews |-> calls], hashSeed)
                     enrichments == Cardinality(DOMAIN reddit_reviews)
                     to_insert ==
                         places_to_insert(tomtom_places, reddit_reviews, processed_data)
                     \* line 230: bulk_insert_places is called for a non-empty list
                     bulk_calls == IF Len(to_insert) > 0 THEN 1 ELSE 0
                     docs == bulk_place_docs(places, to_insert)
                 IN
                 IF bulk_calls = 1 /\ store_fails
                 THEN \* bulk_insert_places raises: line 100 catches it
                      /\ last' = Log(asked, answer.kind, tomtom_places, resp,
                                     reddit_reviews, processed_data, scrapes, enrichments, 1, TRUE, <<>>,
                                     ErrorResult(StoreError))
                      /\ UNCHANGED <<places, nextId>>
                 ELSE /\ Len(places) + Len(docs) <= MaxPlaces
                      /\ places' = insert_many(places, docs, nextId)
                      /\ nextId' = nextId + Len(docs)
                      /\ last' = Log(asked, answer.kind, tomtom_places, resp,
                                     reddit_reviews, processed_data, scrapes, enrichments, bulk_calls,
                                     FALSE, to_insert,
                                     FallbackResult(existing_places, to_insert,
                                                    tomtom_places, reddit_reviews))

\* a search requested on its own
search_places_with_fallback(city, category, vibe_tags, min_results) ==
    /\ last = NoCall
    /\ search_step(city, category, vibe_tags, min_results)
    /\ UNCHANGED <<hashSeed, wpc, wargs, wdocs, refiner, filt, enr, flow, req>>

\* the caller repeats, with the same arguments, a search that started from
\* the empty store, has just gone to the provider and returned its places
search_again ==
    /\ last # NoCall
    /\ last.op = "search"
    /\ last.pre = <<>>
    /\ Get(last.ret, "fallback_used", FALSE)
    /\ search_step(last.city, last.category, last.vibe_tags, last.min_results)
    /\ UNCHANGED <<hashSeed, wpc, wargs, wdocs, refiner, filt, enr, flow, req>>

----------------------------------------------------------------------------
(* scraper/review_refiner.py *)

NoRefine == [pc |-> "none"]
NoFilter == [pc |-> "none"]

\* line 87
BatchSize == 15

\* s.split(sep) for a one-character sep: the pieces between the separators,
\* empty pieces included
RECURSIVE Split(_, _)
Split(s, sep) ==
    IF \A i \in 1..Len(s) : CharAt(s, i) # sep THEN <<s>>
    ELSE LET i == CHOOSE k \in 1..Len(s) :
                      /\ CharAt(s, k) = sep
                      /\ \A j \in 1..(k - 1) : CharAt(s, j) # sep
         IN  <<SubSeq(s, 1, i - 1)>> \o Split(SubSeq(s, i + 1, Len(s)), sep)

\* the "seen" loops of lines 127-132 and 180-185: the first occurrence of
\* every element, in order
OrderedUnique(lst) ==
    LET keep == SelectSeq(Indices(lst),
                          LAMBDA i : \A j \in 1..(i - 1) : lst[j] # lst[i])
    IN  [k \in 1..Len(keep) |-> lst[keep[k]]]

\* range(0, len(reviews), batch_size): the number of batches
NumBatches(reviews) == (Len(reviews) + BatchSize - 1) \div BatchSize

\* line 91: reviews[i:i + batch_size] for the b-th batch
Batch(reviews, b) ==
    SubSeq(reviews, (b - 1) * BatchSize + 1,
           IF b * BatchSize < Len(reviews) THEN b * BatchSize ELSE Len(reviews))

\* lines 100-116: the reviews of the batch whose line of the response says YES
marked_relevant(batch, response) ==
    LET result == Strip(response)
        lines  == Split(result, "\n")
        relevant_indices ==
            SelectSeq(Indices(lines), LAMBDA j : Upper(Strip(lines[j])) = "YES")
        in_batch == SelectSeq(relevant_indices, LAMBDA idx : idx <= Len(batch))
    IN  [k \in 1..Len(in_batch) |-> batch[in_batch[k]]]

\* a handler of line 120 that drops the batch
batch_fallback_Drop(batch) == <<>>

\* lines 120-124: what a batch contributes when its request raised
batch_fallback(batch) == batch

\* the body of the loop of line 90 for one batch and the gateway's answer to it
batch_relevant(batch, answer) ==
    IF answer.kind = "raise" THEN batch_fallback(batch)
    ELSE marked_relevant(batch, answer.text)

\* relevant_reviews after the first b batches
RECURSIVE relevant_upto(_, _, _)
relevant_upto(reviews, answers, b) ==
    IF b = 0 THEN <<>>
    ELSE relevant_upto(reviews, answers, b - 1)
         \o batch_relevant(Batch(reviews, b), answers[b])

\* lines 126-132
batched_unique_relevant(relevant_reviews) == OrderedUnique(relevant_reviews)

\* answers[b] is the gateway's answer to the request made for the b-th batch
filter_relevant_reviews_batched(reviews, answers) ==
    IF Len(reviews) = 0 THEN <<>>
    ELSE batched_unique_relevant(relevant_upto(reviews, answers, NumBatches(reviews)))

\* the loop of refine_reviews_with_llm without lines 179-186
unique_relevant_Keep(relevant_reviews) == relevant_reviews

\* lines 179-186
unique_relevant(relevant_reviews) == OrderedUnique(relevant_reviews)

\* line 193 without the slice
EarlyReturn_All(relevant_reviews, min_relevant_reviews) == relevant_reviews

\* line 193: relevant_reviews[:self.min_relevant_reviews]
EarlyReturn(relevant_reviews, min_relevant_reviews) ==
    Take(relevant_reviews, min_relevant_reviews)

ReviewText(i) == "review " \o ToString(i)

RefineContents == {ReviewText(1), ReviewText(2), ReviewText(3)}

\* the gateway's answers to a batch request of the refiner
RefineAnswers ==
    { Raise("OpenRouter API error: 500"),
      Text("YES\nYES\nYES"), Text("YES\nNO\nYES"),
      Text("NO\nYES\nNO"), Text("NO\nNO\nNO") }

\* what fetch_more_reviews_func does: raise, or return a list of review dicts
FetchResults ==
    {[kind |-> "raise"]}
    \cup {[kind |-> "list", reviews |-> [i \in 1..Len(l) |-> Review(l[i], 1)]] :
            l \in SeqsUpTo(RefineContents, MaxPool)}

\* line 196 with the bound of the while loop
CanFetch_Late(has_fetch, iteration, max_iterations) ==
    has_fetch /\ iteration < max_iterations

\* line 196: fetch_more_reviews_func and iteration < self.max_iterations - 1
CanFetch(has_fetch, iteration, max_iterations) ==
    has_fetch /\ iteration < max_iterations - 1

\* the state of a call at line 172, before the first turn of the loop
RefineStart(initial_reviews, max_iterations, min_relevant_reviews, has_fetch) ==
    [pc |-> "loop", initial_reviews |-> initial_reviews,
     max_iterations |-> max_iterations,
     min_relevant_reviews |-> min_relevant_reviews, has_fetch |-> has_fetch,
     current_reviews |-> initial_reviews, relevant_reviews |-> <<>>,
     iteration |-> 0,
     passes |-> 0,            \* calls of filter_relevant_reviews_batched so far
     accepted |-> <<>>,       \* what those calls returned, one after the other
     fetches |-> 0,           \* calls of fetch_more_reviews_func so far
     last_fetch |-> "none",   \* how the last call of the fetch function ended
     ret |-> <<>>]

\* lines 172-193 and 196, 212-214: one turn of the loop up to the fetch
RefinePass ==
    /\ refiner.pc = "loop"
    /\ refiner.iteration < refiner.max_iterations
    /\ \E ans \in RefineAnswers :
         LET answers == [b \in 1..NumBatches(refiner.current_reviews) |-> ans]
             iteration_relevant ==
                 filter_relevant_reviews_batched(refiner.current_reviews, answers)
             relevant_reviews ==
                 unique_relevant(refiner.relevant_reviews \o iteration_relevant)
             logged == [refiner EXCEPT !.relevant_reviews = relevant_reviews,
                                       !.passes = @ + 1,
                                       !.accepted = @ \o iteration_relevant]
         IN  refiner' =
               IF Len(relevant_reviews) >= refiner.min_relevant_reviews
               THEN [logged EXCEPT !.pc = "done",
                        !.ret = EarlyReturn(relevant_reviews,
                                            refiner.min_relevant_reviews)]
               ELSE IF CanFetch(refiner.has_fetch, refiner.iteration,
                                refiner.max_iterations)
               THEN [logged EXCEPT !.pc = "fetch"]
               ELSE [logged EXCEPT !.pc = "done", !.ret = relevant_reviews]
    /\ UNCHANGED <<places, nextId, last, hashSeed, wpc, wargs, wdocs, filt, enr, flow, req>>

\* lines 198-216: the fetch, and the step to the next turn
RefineFetch ==
    /\ refiner.pc = "fetch"
    /\ \E new_reviews \in FetchResults :
         refiner' =
           IF new_reviews.kind = "raise"
           THEN [refiner EXCEPT !.pc = "done", !.last_fetch = "raise",
                                !.fetches = @ + 1,
                                !.ret = refiner.relevant_reviews]
           ELSE IF Len(new_reviews.reviews) = 0
           THEN [refiner EXCEPT !.pc = "done", !.last_fetch = "empty",
                                !.fetches = @ + 1,
                                !.ret = refiner.relevant_reviews]
           ELSE [refiner EXCEPT !.pc = "loop", !.last_fetch = "list",
                    !.fetches = @ + 1,
                    !.current_reviews =
                        [i \in 1..Len(new_reviews.reviews) |->
                            new_reviews.reviews[i].content],
                    !.iteration = @ + 1]
    /\ UNCHANGED <<places, nextId, last, hashSeed, wpc, wargs, wdocs, filt, enr, flow, req>>

\* line 172 false, line 219
RefineExit ==
    /\ refiner.pc = "loop"
    /\ ~(refiner.iteration < refiner.max_iterations)
    /\ refiner' = [refiner EXCEPT !.pc = "done", !.ret = refiner.relevant_reviews]
    /\ UNCHANGED <<places, nextId, last, hashSeed, wpc, wargs, wdocs, filt, enr, flow, req>>

\* the review dicts search_place_reviews holds when it calls
\* _refine_reviews_with_llm, told apart by their scores; line 195 hands their
\* contents to the refiner as initial_reviews
ScrapedReviews(review_contents) ==
    [i \in 1..Len(review_contents) |-> Review(review_contents[i], i)]

\* reddit_scraper.py lines 206-214: for every content the refiner returned,
\* the first of the original review dicts with that content, if there is one
RECURSIVE _refine_reviews_with_llm(_, _)
_refine_reviews_with_llm(reviews, relevant_contents) ==
    IF Len(relevant_contents) = 0 THEN <<>>
    ELSE LET content == Head(relevant_contents)
             found   == {i \in 1..Len(reviews) : reviews[i].content = content}
             rest    == _refine_reviews_with_llm(reviews, Tail(relevant_contents))
         IN  IF found = {} THEN rest
             ELSE <<reviews[CHOOSE i \in found : \A j \in found : i <= j]>> \o rest

\* the lists handed to the batched filter: all different reviews, and lists
\* whose last review repeats the first
FilterReviewLists ==
    {[i \in 1..n |-> ReviewText(i)] : n \in 0..MaxReviews}
    \cup {[i \in 1..n |-> ReviewText(IF i = n THEN 1 ELSE i)] : n \in 2..MaxReviews}

\* the gateway's answers to a batch request of the filter: a failure, clean
\* answers, answers in another case or with blanks, answers with too few or
\* too many lines, and answers that say more than YES
FilterAnswers ==
    { Raise("Read timed out. (read timeout=15)"),
      Text("YES\nNO\nYES"),
      Text("yes\n Yes \nno"),
      Text("YES"),
      Text(""),
      Text("\nNO\n\nYES\n"),
      Text(Join("\n", [i \in 1..(BatchSize + 1) |-> "YES"])),
      Text("Yes.\nYES, relevant\nYES") }

\* one call of the filter
FilterCall ==
    /\ filt.pc = "ready"
    /\ filt' = [filt EXCEPT !.pc = "done",
                   !.ret = filter_relevant_reviews_batched(filt.reviews, filt.answers)]
    /\ UNCHANGED <<places, nextId, last, hashSeed, wpc, wargs, wdocs, refiner, enr, flow, req>>

----------------------------------------------------------------------------
(* controllers/place_controller.py called from concurrent requests: every
   find_one, insert_one and insert_many is one step of the store; the steps of
   different calls interleave *)

Workers == 1..NWorkers

\* batches of concurrent calls: no fsq_id twice within one batch
ConcBatches ==
    {b \in Batches : \A i, j \in 1..Len(b) :
        i # j => b[i].original.fsq_id # b[j].original.fsq_id}

\* a request calls add_place(place_data)
CallAddPlace(w, place_data) ==
    /\ wpc[w] = "idle"
    /\ wpc' = [wpc EXCEPT ![w] = "add_find"]
    /\ wargs' = [wargs EXCEPT ![w] = <<place_data>>]
    /\ wdocs' = [wdocs EXCEPT ![w] = <<>>]
    /\ UNCHANGED <<places, nextId, last, hashSeed, refiner, filt, enr, flow, req>>

\* add_place lines 9-30: the checks, then place_doc
AddFind(w) ==
    /\ wpc[w] = "add_find"
    /\ IF SkipPlace(places, wargs[w][1])
       THEN /\ wpc' = [wpc EXCEPT ![w] = "idle"]
            /\ UNCHANGED wdocs
       ELSE /\ wpc' = [wpc EXCEPT ![w] = "add_insert"]
            /\ wdocs' = [wdocs EXCEPT ![w] = <<place_doc(wargs[w][1])>>]
    /\ UNCHANGED <<places, nextId, last, hashSeed, wargs, refiner, filt, enr, flow, req>>

\* add_place lines 31-32
AddInsert(w) ==
    /\ wpc[w] = "add_insert"
    /\ Len(places) < MaxPlaces
    /\ places' = insert_many(places, wdocs[w], nextId)
    /\ nextId' = nextId + 1
    /\ wpc' = [wpc EXCEPT ![w] = "idle"]
    /\ UNCHANGED <<last, hashSeed, wargs, wdocs, refiner, filt, enr, flow, req>>

\* a request calls bulk_insert_places(places_data)
CallBulkInsert(w, places_data) ==
    /\ wpc[w] = "idle"
    /\ wpc' = [wpc EXCEPT ![w] = "bulk_loop"]
    /\ wargs' = [wargs EXCEPT ![w] = places_data]
    /\ wdocs' = [wdocs EXCEPT ![w] = <<>>]
    /\ UNCHANGED <<places, nextId, last, hashSeed, refiner, filt, enr, flow, req>>

\* bulk_insert_places lines 40-66: one turn of the loop; wargs[w] holds the
\* places_data still to visit
BulkFind(w) ==
    /\ wpc[w] = "bulk_loop"
    /\ wargs[w] # <<>>
    /\ wargs' = [wargs EXCEPT ![w] = Tail(@)]
    /\ wdocs' = IF SkipPlace(places, Head(wargs[w])) THEN wdocs
                ELSE [wdocs EXCEPT ![w] = Append(@, place_doc(Head(wargs[w])))]
    /\ UNCHANGED <<places, nextId, last, hashSeed, wpc, refiner, filt, enr, flow, req>>

\* bulk_insert_places lines 68-71
BulkInsert(w) ==
    /\ wpc[w] = "bulk_loop"
    /\ wargs[w] = <<>>
    /\ Len(places) + Len(wdocs[w]) <= MaxPlaces
    /\ places' = insert_many(places, wdocs[w], nextId)
    /\ nextId' = nextId + Len(wdocs[w])
    /\ wpc' = [wpc EXCEPT ![w] = "idle"]
    /\ UNCHANGED <<last, hashSeed, wargs, wdocs, refiner, filt, enr, flow, req>>

----------------------------------------------------------------------------
(* RAG/openrouter_client.py generate_json and RAG/intent_classifier.py *)

\* Python's None where a string may stand: a text no query and no answer uses
None == "<None>"

\* a JSON null where an object may stand
NullObject == [is_null |-> TRUE]

\* a query that is not a str: the JSON body of the route may carry a number
NotText == "<42>"

\* bool(x) of an optional string
Truthy(x) == x # None /\ x # ""

\* str.split() of a text whose only white space is the blank
Words(s) == SelectSeq(Split(s, " "), LAMBDA w : w # "")

\* str.title() of one lower-case word
Title(s) == UpperChar(CharAt(s, 1)) \o SubSeq(s, 2, Len(s))

IsUpper(c) == c \in DOMAIN LowerTable

\* the first element of lst that is found in text, or None
FirstIn(lst, text) ==
    LET hits == {i \in 1..Len(lst) : IsSubstr(lst[i], text)} IN
    IF hits = {} THEN None
    ELSE lst[CHOOSE i \in hits : \A j \in hits : i <= j]

\* A gateway answer to generate_json is a raised exception or a response
\* text, described by what json.loads makes of it: "invalid" (a decode
\* error), "other" (a list, a number, a string or null) or "object" with the
\* decoded dict. generate_json returns the decoded value or raises.
Json(kind, obj) == [kind |-> "text", json |-> kind, obj |-> obj]

generate_json(answer) ==
    IF answer.kind = "raise" THEN answer
    ELSE IF answer.json = "invalid"
    THEN Raise("Invalid JSON response from OpenRouter: Expecting value")
    ELSE [kind |-> "value", is_dict |-> answer.json = "object", obj |-> answer.obj]

_generate_simple_response(query) ==
    LET query_lower == Lower(query) IN
    IF AnyIn({"hello", "hi", "hey"}, query_lower)
    THEN "Hello! How can I help you find places today?"
    ELSE IF AnyIn({"how are you"}, query_lower)
    THEN "I'm doing great! Ready to help you discover amazing places. What are you looking for?"
    ELSE IF AnyIn({"what can you do", "help"}, query_lower)
    THEN "I can help you search for places and get details about specific locations! Try asking me to find coffee shops in Delhi or tell me about a specific place."
    ELSE IF AnyIn({"thanks", "thank you"}, query_lower)
    THEN "You're welcome! Let me know if you need help finding more places."
    ELSE "I'm here to help you discover places! You can ask me to search for places or get details about specific locations."

_extract_place_name(query) ==
    LET words == Words(query)
        caps  == {i \in 2..Len(words) : IsUpper(CharAt(words[i], 1))}
    IN  IF Len(words) >= 3 /\ caps # {}
        THEN words[CHOOSE i \in caps : \A j \in caps : i <= j]
        ELSE None

_extract_city(query) ==
    LET cities == <<"delhi", "mumbai", "bangalore", "chennai", "kolkata",
                    "hyderabad", "pune", "ahmedabad">>
        city   == FirstIn(cities, Lower(query))
    IN  IF city = None THEN None ELSE Title(city)

\* the categories in the order of the dict, each with its keywords
_extract_category(query) ==
    LET query_lower == Lower(query) IN
    IF AnyIn({"coffee", "cafe", "starbucks"}, query_lower) THEN "coffee"
    ELSE IF AnyIn({"restaurant", "food", "dining", "eat"}, query_lower) THEN "restaurant"
    ELSE IF AnyIn({"park", "garden", "outdoor"}, query_lower) THEN "park"
    ELSE IF AnyIn({"bar", "pub", "nightlife"}, query_lower) THEN "bar"
    ELSE IF AnyIn({"mall", "shop", "store", "shopping"}, query_lower) THEN "shopping"
    ELSE None

\* line 79 and lines 88-89: a keyword found anywhere in the lower-cased query
simple_keywords(query_lower) ==
    AnyIn({"hello", "hi", "hey", "how are you", "what can you do", "help",
           "thanks", "thank you"}, query_lower)

\* line 82 and lines 104-105
detail_keywords(query_lower) ==
    AnyIn({"tell me about", "what is", "what's at", "info about", "details of",
           "about"}, query_lower)

_fallback_classification(user_query) ==
    LET query_lower == Lower(user_query) IN
    \* line 76: only a str has lower()
    IF user_query = NotText THEN Raise("'int' object has no attribute 'lower'")
    ELSE IF simple_keywords(query_lower)
    THEN [intent |-> "simple_response", confidence |-> "0.8",
          extracted_data |->
              [place_name |-> None, city |-> None, category |-> None,
               vibe_tags |-> <<>>, search_terms |-> <<>>,
               response_text |-> _generate_simple_response(user_query)]]
    ELSE IF detail_keywords(query_lower)
    THEN [intent |-> "place_detail", confidence |-> "0.7",
          extracted_data |->
              [place_name |-> _extract_place_name(user_query), city |-> None,
               category |-> None, vibe_tags |-> <<>>, search_terms |-> <<>>]]
    ELSE [intent |-> "place_search", confidence |-> "0.6",
          extracted_data |->
              [place_name |-> None, city |-> _extract_city(user_query),
               category |-> _extract_category(user_query), vibe_tags |-> <<>>,
               search_terms |-> Words(user_query)]]

classify_intent_Trusting(user_query, answer) == IF answer.kind = "raise" THEN _fallback_classification(user_query) ELSE answer.obj

\* answer is what the gateway gives to the request of line 55; the result is
\* the returned dict, or the exception that leaves classify_intent
classify_intent(user_query, answer) ==
    LET response == generate_json(answer) IN
    IF response.kind = "raise" THEN _fallback_classification(user_query)
    \* line 61: result.get raises AttributeError on anything but a dict
    ELSE IF ~response.is_dict THEN _fallback_classification(user_query)
    ELSE response.obj

----------------------------------------------------------------------------
(* RAG/llm_processor.py called on its own: one enrichment at a time *)

NoEnrich == [op |-> "none"]
NoFlow   == [op |-> "none"]

\* a name without keyword, a name matching all four keyword groups, the
\* empty name, and a name matching one group
EnrichNames == {"Unnamed Diner", "Garden Cafe Bar & Bistro", "", "Blue Tokai Coffee"}

EnrichCategories == {"restaurant", "Cafe", ""}

\* no review, reviews whose joined text is blank, and one review with text
EnrichReviews ==
    { <<>>,
      <<[source |-> "reddit", content |-> "  "], [source |-> "reddit"]>>,
      <<[source |-> "reddit", content |-> "Great coffee, cozy seats"]>> }

\* an object with the summary only
PartialText ==
    [open |-> TRUE, close |-> TRUE, nolen |-> {}, data |-> [summary |-> "Nice"]]

\* an object whose three fields are empty
BlankText ==
    [open |-> TRUE, close |-> TRUE, nolen |-> {},
     data |-> [summary |-> "", vibe_tags |-> <<>>, emojis |-> <<>>]]

\* an object with six tags, one of them twice, and four emojis
LongText ==
    [open |-> TRUE, close |-> TRUE, nolen |-> {},
     data |-> [summary |-> "Busy",
               vibe_tags |-> <<"cozy", "loud", "cozy", "cheap", "late", "busy">>,
               emojis |-> <<":coffee:", ":fire:", ":moon:", ":star:">>]]

\* an object whose vibe_tags is null
NullText ==
    [open |-> TRUE, close |-> TRUE, nolen |-> {"vibe_tags"},
     data |-> [summary |-> "Nice", vibe_tags |-> <<>>, emojis |-> <<":coffee:">>]]

\* an opening brace and a closing brace around text json.loads rejects
BrokenText == [open |-> TRUE, close |-> TRUE, nolen |-> {}, data |-> JsonInvalid]

Timeout == Raise("HTTPSConnectionPool(host='openrouter.ai', port=443): Read timed out. (read timeout=15)")
Refused == Raise("('Connection aborted.', RemoteDisconnected('Remote end closed'))")
ApiError == Raise("OpenRouter API error: 500")

\* what the gateway answers to the first request and to a second one
EnrichBehaviours ==
    { <<Text(GoodText), Text(GoodText)>>,
      <<Text(ProseText), Text(GoodText)>>,
      <<Text(BrokenText), Text(GoodText)>>,
      <<Text(PartialText), Text(GoodText)>>,
      <<Text(BlankText), Text(GoodText)>>,
      <<Text(LongText), Text(GoodText)>>,
      <<Text(NullText), Text(GoodText)>>,
      <<ApiError, Text(GoodText)>>,
      <<Timeout, Text(GoodText)>>,
      <<Timeout, Text(ProseText)>>,
      <<Timeout, ApiError>>,
      <<Refused, Timeout>> }

EnrichCall(place_name, place_category, reviews, calls) ==
    /\ enr = NoEnrich
    /\ enr' = [op |-> "process_place_reviews", place_name |-> place_name,
               place_category |-> place_category, reviews |-> reviews,
               calls |-> calls, seed |-> hashSeed,
               requests |-> gateway_requests(reviews, calls),
               ret |-> process_place_reviews(place_name, place_category,
                                             reviews, calls, hashSeed)]
    /\ UNCHANGED <<places, nextId, last, hashSeed, wpc, wargs, wdocs, refiner, filt, flow, req>>

\* a first call of _get_default_processing
DefaultCall(place_name, place_category) ==
    /\ enr = NoEnrich
    /\ enr' = [op |-> "_get_default_processing", place_name |-> place_name,
               place_category |-> place_category, seed |-> hashSeed, n |-> 1,
               ret |-> _get_default_processing(place_name, place_category, hashSeed),
               again |-> NoProcessed]
    /\ UNCHANGED <<places, nextId, last, hashSeed, wpc, wargs, wdocs, refiner, filt, flow, req>>

\* a second call of _get_default_processing with the arguments of the first
DefaultAgain ==
    /\ enr.op = "_get_default_processing"
    /\ enr.n = 1
    /\ enr' = [enr EXCEPT !.n = 2,
                          !.again = _get_default_processing(enr.place_name,
                                        enr.place_category, hashSeed)]
    /\ UNCHANGED <<places, nextId, last, hashSeed, wpc, wargs, wdocs, refiner, filt, flow, req>>

\* the caller has read the result; the next call may begin
EnrichReturn ==
    /\ enr # NoEnrich
    /\ enr' = NoEnrich
    /\ UNCHANGED <<places, nextId, last, hashSeed, wpc, wargs, wdocs, refiner, filt, flow, req>>

\* the server process is started again: the interpreter draws a new hash seed
\* (PYTHONHASHSEED is not set by the application)
Restart ==
    /\ hashSeed' \in HashSeeds \ {hashSeed}
    /\ UNCHANGED <<places, nextId, last, wpc, wargs, wdocs, refiner, filt, enr, flow, req>>

----------------------------------------------------------------------------
(* RAG/flow_controller.py *)

\* str(x) inside an f-string
Str(x) == IF x = None THEN "None" ELSE x

\* the {} that dict.get(key, {}) falls back to: no key a handler asks for
EmptyDict == [unused |-> ""]

IsNull(d) == "is_null" \in DOMAIN d

NeedsEnrichment_Always(place) == TRUE

\* lines 113-139 and 216-243: the entry of one found place; a place whose
\* processed block has tags and a summary is passed on, any other is enriched
NeedsEnrichment(place) ==
    LET processed_data == Get(place, "processed", EmptyDict) IN
    ~(Len(Get(processed_data, "vibe_tags", <<>>)) > 0
      /\ Get(processed_data, "summary", "") # "")

enriched_place(place, calls, seed) ==
    LET processed_data == Get(place, "processed", EmptyDict)
        result ==
            IF NeedsEnrichment(place)
            THEN process_place_reviews(Get(place, "name", ""), Get(place, "category", ""),
                                       Get(place, "reviews", <<>>), calls, seed)
            ELSE [summary   |-> Get(processed_data, "summary", ""),
                  vibe_tags |-> Get(processed_data, "vibe_tags", <<>>),
                  emojis    |-> Get(processed_data, "emojis", <<>>)]
    IN  [name |-> Get(place, "name", ""), category |-> Get(place, "category", ""),
         vibe_tags |-> result.vibe_tags, emojis |-> result.emojis,
         summary |-> result.summary, reviews |-> Get(place, "reviews", <<>>)]

\* the calls of process_place_reviews a handler makes for the places found
enrichment_calls(found) == Len(SelectSeq(found, NeedsEnrichment))

Failure(error, response) == [success |-> FALSE, error |-> error, response |-> response]

\* lines 93-157: the response of _handle_place_search once the search returned
place_search_response(extracted_data, confidence, search_result, calls, seed) ==
    LET city           == Get(extracted_data, "city", "Delhi")
        category       == Get(extracted_data, "category", None)
        search_results == Get(search_result, "places", <<>>)
        enriched_places ==
            [i \in 1..Len(search_results) |-> enriched_place(search_results[i], calls, seed)]
    IN  IF Len(search_results) = 0
        THEN [success |-> TRUE, intent |-> "place_search",
              response |-> "I couldn't find any places matching your criteria in "
                           \o Str(city) \o ". Try different search terms or location.",
              places |-> <<>>,
              metadata |-> [city |-> city, category |-> category, results_count |-> 0]]
        ELSE [success |-> TRUE, intent |-> "place_search",
              response |-> "I found " \o ToString(Len(enriched_places)) \o " places in "
                           \o Str(city) \o " that match your criteria.",
              places |-> enriched_places,
              metadata |-> [city |-> city, category |-> category,
                            results_count |-> Len(enriched_places),
                            confidence |-> confidence]]

_generate_place_summary(place) ==
    LET name      == Get(place, "name", "This place")
        category  == Get(place, "category", "place")
        vibe_tags == Get(place, "vibe_tags", <<>>)
        emojis    == Get(place, "emojis", <<>>)
        reviews   == Get(place, "reviews", <<>>)
        summary_parts ==
            <<"Here's what I found about " \o name \o ":">>
            \o (IF category # "" THEN <<"It's a " \o category \o ".">> ELSE <<>>)
            \o (IF Len(vibe_tags) > 0
                THEN <<"The vibe is: " \o Join(", ", vibe_tags) \o ".">> ELSE <<>>)
            \o (IF Len(emojis) > 0
                THEN <<"Represented by: " \o Join(" ", emojis)>> ELSE <<>>)
            \o (IF Len(reviews) > 0
                THEN <<"It has " \o ToString(Len(reviews)) \o " reviews from various sources.">>
                ELSE <<>>)
    IN  Join(" ", summary_parts)

\* lines 263-269
DetailFailure ==
    Failure("Failed to get place details",
            "I'm sorry, I couldn't get details for that place right now. Please try again later.")

\* lines 175-179
AskForPlace ==
    Failure("No place name provided",
            "Please specify which place you'd like to know more about.")

NeedsPlaceName_Never(place_name) == FALSE

\* line 174: not place_name
NeedsPlaceName(place_name) == ~Truthy(place_name)

\* lines 198-261: the response of _handle_place_detail once the search returned
place_detail_response(place_name, confidence, place_result, calls, seed) ==
    LET place_results == Get(place_result, "places", <<>>) IN
    IF Len(place_results) = 0
    THEN [success |-> TRUE, intent |-> "place_detail",
          response |-> "I couldn't find any information about " \o place_name
                       \o ". Please check the spelling or try a different place.",
          place |-> NullObject,
          metadata |-> [place_name |-> place_name, found |-> FALSE]]
    ELSE LET place == enriched_place(place_results[1], calls, seed) IN
         [success |-> TRUE, intent |-> "place_detail",
          response |-> _generate_place_summary(place),
          place |-> place,
          metadata |-> [place_name |-> place_name, found |-> TRUE,
                        confidence |-> confidence]]

_handle_simple_response(extracted_data, confidence) ==
    IF IsNull(extracted_data)
    THEN Failure("Failed to generate simple response",
                 "Hello! How can I help you find places today?")
    ELSE [success |-> TRUE, intent |-> "simple_response",
          response |-> Get(extracted_data, "response_text",
                           "Hello! How can I help you find places today?"),
          places |-> <<>>,
          metadata |-> [confidence |-> confidence, response_type |-> "simple_text"]]

_handle_unknown_intent(user_query) ==
    Failure("Unknown intent",
            "I'm not sure what you're looking for. You can ask me to search for places (like 'coffee shops in Delhi') or get details about a specific place (like 'tell me about Starbucks').")

\* the record of one query: the classifier's result, the searches and
\* enrichment calls the handler made, and the response
FlowLog(user_query, answer, intent_result, handler, searches, enrichments, ret) ==
    [op |-> "process_query", user_query |-> user_query, answer |-> answer,
     intent_result |-> intent_result, handler |-> handler, searches |-> searches,
     enrichments |-> enrichments, ret |-> ret]

IsRaise(result) == "kind" \in DOMAIN result /\ result.kind = "raise"

Route_Gated(intent, confidence) == IF confidence \in {"0.1", "0.6"} THEN "_handle_unknown_intent" ELSE IF intent \in {"place_search", "place_detail", "simple_response"} THEN "_handle_" \o intent ELSE "_handle_unknown_intent"

\* lines 49-56: the handler is chosen by the intent; the confidence is at
\* hand and is not looked at
Route(intent, confidence) ==
    IF intent = "place_search" THEN "_handle_place_search"
    ELSE IF intent = "place_detail" THEN "_handle_place_detail"
    ELSE IF intent = "simple_response" THEN "_handle_simple_response"
    ELSE "_handle_unknown_intent"

\* process_query: answer is the gateway's answer to the classifier; calls are
\* its answers to the enrichment of a found place
process_query(user_query, answer, calls) ==
    LET intent_result  == classify_intent(user_query, answer)
        intent         == Get(intent_result, "intent", None)
        confidence     == Get(intent_result, "confidence", "0")
        extracted_data == Get(intent_result, "extracted_data", EmptyDict)
        handler        == Route(intent, confidence)
        Log(searches, enrichments, ret) ==
            FlowLog(user_query, answer, intent_result, handler, searches, enrichments, ret)
    IN
    /\ last = NoCall
    /\ flow = NoFlow
    /\ UNCHANGED <<hashSeed, wpc, wargs, wdocs, refiner, filt, enr, req>>
    /\ IF IsRaise(intent_result)
       THEN \* lines 58-64: the exception of the classifier is caught
            /\ flow' = FlowLog(user_query, answer, intent_result, "none", 0, 0,
                          Failure("Failed to process query",
                                  "I'm sorry, I couldn't understand your request. Please try again."))
            /\ UNCHANGED <<places, nextId, last>>
       ELSE IF handler = "_handle_place_search"
       THEN IF IsNull(extracted_data)
            THEN \* line 71 raises AttributeError; line 159 catches it
                 /\ flow' = Log(0, 0, Failure("Failed to search for places",
                        "I'm sorry, I couldn't search for places right now. Please try again later."))
                 /\ UNCHANGED <<places, nextId, last>>
            ELSE LET category == Get(extracted_data, "category", None) IN
                 /\ search_step(Get(extracted_data, "city", "Delhi"),
                                IF Truthy(category) THEN category ELSE "restaurant",
                                Get(extracted_data, "vibe_tags", <<>>), 5)
                 /\ flow' = Log(1, enrichment_calls(Get(last'.ret, "places", <<>>)),
                                place_search_response(extracted_data, confidence,
                                                      last'.ret, calls, hashSeed))
       ELSE IF handler = "_handle_place_detail"
       THEN IF IsNull(extracted_data)
            THEN \* line 172 raises AttributeError; line 263 catches it
                 /\ flow' = Log(0, 0, DetailFailure)
                 /\ UNCHANGED <<places, nextId, last>>
            ELSE IF NeedsPlaceName(Get(extracted_data, "place_name", None))
            THEN /\ flow' = Log(0, 0, AskForPlace)
                 /\ UNCHANGED <<places, nextId, last>>
            ELSE /\ search_step("Delhi", "restaurant", <<>>, 1)
                 /\ flow' = Log(1,
                                IF Len(Get(last'.ret, "places", <<>>)) > 0
                                   /\ NeedsEnrichment(last'.ret.places[1]) THEN 1 ELSE 0,
                                place_detail_response(Get(extracted_data, "place_name", None),
                                                      confidence, last'.ret, calls, hashSeed))
       ELSE IF handler = "_handle_simple_response"
       THEN /\ flow' = Log(0, 0, _handle_simple_response(extracted_data, confidence))
            /\ UNCHANGED <<places, nextId, last>>
       ELSE /\ flow' = Log(0, 0, _handle_unknown_intent(user_query))
            /\ UNCHANGED <<places, nextId, last>>

\* the queries the model asks
FlowQueries ==
    { "coffee shops in Delhi", "tell me about Starbucks", "hello",
      "parks in Mumbai", "find a quiet bar", "about it", NotText }

SearchObject ==
    [intent |-> "place_search", confidence |-> "0.9",
     extracted_data |-> [city |-> "Delhi", category |-> "coffee", vibe_tags |-> <<>>,
                         search_terms |-> <<"coffee", "shops">>]]

DetailObject(extracted_data) ==
    [intent |-> "place_detail", confidence |-> "0.9", extracted_data |-> extracted_data]

\* what the gateway answers to the classifier: errors, text that is no JSON,
\* JSON that is no object, and objects of the asked and of other shapes
IntentAnswers ==
    { ApiError, Timeout, Json("invalid", EmptyDict), Json("other", EmptyDict),
      Json("object", SearchObject),
      Json("object", [SearchObject EXCEPT !.confidence = "0.1"]),
      Json("object", [SearchObject EXCEPT !.extracted_data = [vibe_tags |-> <<>>]]),
      Json("object", DetailObject([place_name |-> "Starbucks"])),
      Json("object", DetailObject([place_name |-> None])),
      Json("object", DetailObject([place_name |-> ""])),
      Json("object", DetailObject([city |-> "Delhi"])),
      Json("object", DetailObject(NullObject)),
      Json("object", [intent |-> "place_detail", confidence |-> "0.9"]),
      Json("object", [intent |-> "simple_response", confidence |-> "0.9",
                      extracted_data |-> [response_text |-> "Hi there!"]]),
      Json("object", [intent |-> "greeting", confidence |-> "0.9",
                      extracted_data |-> [response_text |-> "Hi there!"]]),
      Json("object", [confidence |-> "0.9"]) }

\* what the gateway answers when a handler enriches a found place
FlowEnrichBehaviours ==
    { <<Text(GoodText), Text(GoodText)>>, <<ApiError, Text(GoodText)>> }

\* the store a query meets: empty, or holding a place that has reviews and
\* no enrichment yet
FlowStores ==
    { <<>>,
      <<WithId(place_doc(PlaceData("t9", "Dilli Diner", "restaurant coffee", "Delhi",
                                   NoProcessed,
                                   <<Review("Good food and good coffee here", 4)>>)), 1)>> }

----------------------------------------------------------------------------
(* the external requests of one call, in the order the code makes them:
   services/tomtom_service.py, scraper/reddit_scraper.py,
   RAG/openrouter_client.py *)

NoRequest == [pc |-> "none"]

Providers == {"place search", "geocoding", "place details", "review source", "LLM"}

\* requests.get(url, headers=..., params=...): no timeout argument, the call
\* waits for the answer without limit
NoTimeout == 0

\* the timeout argument, in seconds, of the requests call made at pc
TimeoutOf(pc) ==
    CASE pc = "geocode"    -> NoTimeout
      [] pc = "poiSearch"  -> NoTimeout
      [] pc = "poiDetails" -> NoTimeout
      [] pc = "reddit"     -> 10
      [] OTHER             -> 15

\* the provider the request made at pc is sent to
ProviderOf(pc) ==
    CASE pc = "geocode"    -> "geocoding"
      [] pc = "poiSearch"  -> "place search"
      [] pc = "poiDetails" -> "place details"
      [] pc = "reddit"     -> "review source"
      [] OTHER             -> "LLM"

Waiting(r) == r.pc \notin {"none", "returned"}

At(r, pc, n, i) == [r EXCEPT !.pc = pc, !.n = n, !.i = i]

\* process_query after the search: one enrichment per found place that has
\* no summary yet, then the response
AfterSearch(r, found) ==
    IF r.op = "search_places_with_fallback"
    THEN {At(r, "returned", found, 0)}
    ELSE {At(r, "returned", found, 0)}
         \cup {At(r, "enrich", k, 1) : k \in 1..found}

\* search_places_with_fallback from its first line: the cache holds enough,
\* or search_places is called, which without an API key answers with its
\* placeholder places and makes no request
StartSearch(r) ==
    UNION {AfterSearch(r, k) : k \in 1..MaxCand}
    \cup (IF r.has_key THEN {At(r, "geocode", 0, 0)}
          ELSE {At(r, "reddit", n, 1) : n \in 1..MaxCand})

\* the position after the request at r.pc ended with outcome "ok" (an
\* answer), "refused" (a transport error or an error status) or "timeout"
Successors(r, outcome) ==
    CASE r.pc = "classify" ->
            \* the gateway's intent or the keyword classifier's: a search
            \* handler, or a handler that makes no request
            StartSearch(r) \cup {At(r, "returned", 0, 0)}
      [] r.pc = "geocode" -> {At(r, "poiSearch", 0, 0)}
      [] r.pc = "poiSearch" ->
            IF outcome = "ok"
            THEN {At(r, "poiDetails", n, 1) : n \in 1..MaxCand}
                 \cup {At(r, "reddit", n, 1) : n \in 1..MaxCand}
            ELSE {At(r, "reddit", n, 1) : n \in 1..MaxCand}
      [] r.pc = "poiDetails" ->
            IF r.i < r.n THEN {At(r, "poiDetails", r.n, r.i + 1)}
            ELSE {At(r, "reddit", r.n, 1)}
      [] r.pc = "reddit" ->
            IF r.i < r.n THEN {At(r, "reddit", r.n, r.i + 1)}
            ELSE {At(r, "llm", r.n, 1)}
      [] r.pc \in {"llm", "enrich"} /\ outcome = "timeout" ->
            {At(r, r.pc \o "_retry", r.n, r.i)}
      [] r.pc \in {"llm", "llm_retry"} ->
            IF r.i < r.n THEN {At(r, "llm", r.n, r.i + 1)}
            ELSE AfterSearch(r, r.n)
      [] r.pc \in {"enrich", "enrich_retry"} ->
            IF r.i < r.n THEN {At(r, "enrich", r.n, r.i + 1)}
            ELSE {At(r, "returned", r.n, 0)}

\* a call starts; silent is the provider that never answers, if any
Call(op, silent, has_key) ==
    /\ req = NoRequest
    /\ LET r == [op |-> op, silent |-> silent, has_key |-> has_key,
                 pc |-> "none", n |-> 0, i |-> 0, waited |-> 0]
       IN  IF op = "process_query"
           THEN req' = At(r, "classify", 0, 0)
           ELSE req' \in StartSearch(r)
    /\ UNCHANGED <<places, nextId, last, hashSeed, wpc, wargs, wdocs, refiner, filt, enr, flow>>

\* the provider answers the outstanding request
Respond ==
    /\ Waiting(req)
    /\ ProviderOf(req.pc) # req.silent
    /\ req' \in Successors(req, "ok")
    /\ UNCHANGED <<places, nextId, last, hashSeed, wpc, wargs, wdocs, refiner, filt, enr, flow>>

\* the connection is refused or the provider answers with an error status
Refuse ==
    /\ Waiting(req)
    /\ ProviderOf(req.pc) # req.silent
    /\ req' \in Successors(req, "refused")
    /\ UNCHANGED <<places, nextId, last, hashSeed, wpc, wargs, wdocs, refiner, filt, enr, flow>>

\* the timeout of the outstanding request expires: requests raises Timeout,
\* which the caller's except clause handles
Expire ==
    /\ Waiting(req)
    /\ TimeoutOf(req.pc) # NoTimeout
    /\ \E r \in Successors(req, "timeout") :
          req' = [r EXCEPT !.waited = req.waited + TimeoutOf(req.pc)]
    /\ UNCHANGED <<places, nextId, last, hashSeed, wpc, wargs, wdocs, refiner, filt, enr, flow>>

----------------------------------------------------------------------------

Init ==
    /\ places = <<>>
    /\ nextId = 1
    /\ last = NoCall
    /\ hashSeed \in HashSeeds
    /\ wpc = <<>>
    /\ wargs = <<>>
    /\ wdocs = <<>>
    /\ refiner = NoRefine
    /\ filt = NoFilter
    /\ enr = NoEnrich
    /\ flow = NoFlow
    /\ req = NoRequest

\* the caller has read the result; the next call may begin
Return ==
    /\ last # NoCall
    /\ last' = NoCall
    /\ UNCHANGED <<places, nextId, hashSeed, wpc, wargs, wdocs, refiner, filt, enr, flow, req>>

\* the search service on top of the store, which add_place also fills
Next ==
    \/ \E d \in PlaceInputs : add_place(d)
    \/ \E a \in SearchArgs, m \in 1..MaxMin :
          search_places_with_fallback(a[1], a[2], a[3], m)
    \/ Return

Spec == Init /\ [][Next]_vars

\* the place controllers alone
NextStore ==
    \/ \E d \in PlaceInputs : add_place(d)
    \/ \E b \in Batches : bulk_insert_places(b)
    \/ Return

SpecStore == Init /\ [][NextStore]_vars

\* requests that reach the place controllers at the same time
InitConc ==
    /\ places = <<>>
    /\ nextId = 1
    /\ last = NoCall
    /\ hashSeed = 1
    /\ wpc = [w \in Workers |-> "idle"]
    /\ wargs = [w \in Workers |-> <<>>]
    /\ wdocs = [w \in Workers |-> <<>>]
    /\ refiner = NoRefine
    /\ filt = NoFilter
    /\ enr = NoEnrich
    /\ flow = NoFlow
    /\ req = NoRequest

NextConc ==
    \/ \E w \in Workers, d \in PlaceInputs : CallAddPlace(w, d)
    \/ \E w \in Workers : AddFind(w)
    \/ \E w \in Workers : AddInsert(w)
    \/ \E w \in Workers, b \in ConcBatches : CallBulkInsert(w, b)
    \/ \E w \in Workers : BulkFind(w)
    \/ \E w \in Workers : BulkInsert(w)

SpecConc == InitConc /\ [][NextConc]_vars

\* one call of refine_reviews_with_llm, for every refiner and every input
InitRefine ==
    /\ places = <<>>
    /\ nextId = 1
    /\ last = NoCall
    /\ hashSeed = 1
    /\ wpc = <<>>
    /\ wargs = <<>>
    /\ wdocs = <<>>
    /\ refiner \in {RefineStart(r, it, mr, f) :
                        r \in SeqsUpTo(RefineContents, MaxPool),
                        it \in 0..MaxIterations, mr \in 0..MaxMinRelevant,
                        f \in BOOLEAN}
    /\ filt = NoFilter
    /\ enr = NoEnrich
    /\ flow = NoFlow
    /\ req = NoRequest

NextRefine == RefinePass \/ RefineFetch \/ RefineExit

SpecRefine == InitRefine /\ [][NextRefine]_vars

\* one call of filter_relevant_reviews_batched, for every list and every
\* answer to each of its batches
InitFilter ==
    /\ places = <<>>
    /\ nextId = 1
    /\ last = NoCall
    /\ hashSeed = 1
    /\ wpc = <<>>
    /\ wargs = <<>>
    /\ wdocs = <<>>
    /\ refiner = NoRefine
    /\ filt \in UNION {{[pc |-> "ready", reviews |-> r, answers |-> a, ret |-> <<>>] :
                          a \in [1..NumBatches(r) -> FilterAnswers]} :
                       r \in FilterReviewLists}
    /\ enr = NoEnrich
    /\ flow = NoFlow
    /\ req = NoRequest

NextFilter == FilterCall

SpecFilter == InitFilter /\ [][NextFilter]_vars

\* enrichment calls on their own, for every name, category, review list and
\* gateway behaviour, in a server that may be started again between calls
NextEnrich ==
    \/ \E n \in EnrichNames, c \in EnrichCategories, r \in EnrichReviews,
          calls \in EnrichBehaviours : EnrichCall(n, c, r, calls)
    \/ \E n \in EnrichNames, c \in EnrichCategories : DefaultCall(n, c)
    \/ DefaultAgain
    \/ EnrichReturn
    \/ Restart

SpecEnrich == Init /\ [][NextEnrich]_vars

\* one query to the flow controller, for every store it may meet
InitFlow ==
    /\ places \in FlowStores
    /\ nextId = Len(places) + 1
    /\ last = NoCall
    /\ hashSeed = 1
    /\ wpc = <<>>
    /\ wargs = <<>>
    /\ wdocs = <<>>
    /\ refiner = NoRefine
    /\ filt = NoFilter
    /\ enr = NoEnrich
    /\ flow = NoFlow
    /\ req = NoRequest

NextFlow ==
    \E q \in FlowQueries, a \in IntentAnswers, calls \in FlowEnrichBehaviours :
        process_query(q, a, calls)

SpecFlow == InitFlow /\ [][NextFlow]_vars

\* a search on the empty store and its repetitions
NextRepeat ==
    \/ \E a \in SearchArgs, m \in 1..MaxMin :
          search_places_with_fallback(a[1], a[2], a[3], m)
    \/ search_again

SpecRepeat == Init /\ [][NextRepeat]_vars

\* one call and its external requests; a provider that is not silent
\* answers or refuses in time and a timer that is set fires, so a step that
\* is possible is eventually taken
NextBlock ==
    \/ \E op \in {"search_places_with_fallback", "process_query"},
          silent \in Providers \cup {"none"}, has_key \in BOOLEAN :
          Call(op, silent, has_key)
    \/ Respond
    \/ Refuse
    \/ Expire

SpecBlock == Init /\ [][NextBlock]_vars /\ WF_vars(NextBlock)

----------------------------------------------------------------------------
(* Claims about the fallback search (specification Spec) *)

\* the documents of store that the query (city, category, vibe_tags) selects,
\* written out for the claims: same city, the category contained in the stored
\* one whatever the case, and a shared tag when tags are asked for
Matched(store, city, category, vibe_tags) ==
    SelectSeq(store, LAMBDA d :
        /\ d.original.city = city
        /\ \E i \in 1..Len(d.original.category) :
              /\ i + Len(category) - 1 <= Len(d.original.category)
              /\ Lower(SubSeq(d.original.category, i, i + Len(category) - 1))
                    = Lower(category)
        /\ (vibe_tags # <<>> =>
              \E i \in 1..Len(d.processed.vibe_tags), j \in 1..Len(vibe_tags) :
                  d.processed.vibe_tags[i] = vibe_tags[j]))

LastMatched == Matched(last.pre, last.city, last.category, last.vibe_tags)

\* C1: whenever a search starts from a store holding at least min_results
\* matching places, it returns source=database, fallback_used=false, the
\* matching places and their number, and it calls neither the place-search
\* provider, nor the review scraper, nor the enrichment, nor the bulk insert,
\* and leaves the store as it was.
C1_CacheFirst ==
    (last.op = "search" /\ Len(LastMatched) >= last.min_results) =>
        /\ last.ret = [success |-> TRUE, source |-> "database",
                       places |-> LastMatched, count |-> Len(LastMatched),
                       fallback_used |-> FALSE]
        /\ last.asked = <<>>
        /\ last.scrapes = 0
        /\ last.enrichments = 0
        /\ last.bulk_calls = 0
        /\ places = last.pre

C1_Witness ==
    /\ last.op = "search"
    /\ Len(LastMatched) >= last.min_results
    /\ Len(LastMatched) = 2
    /\ last.ret.source = "database"

\* the place document the search builds for candidate c, but for its
\* enrichment and reviews
SameOriginal(doc, c) ==
    doc.original = [fsq_id |-> c.fsq_id, name |-> c.name,
                    category |-> c.category, city |-> c.city]

C3_DegradedSuccess ==
    (/\ last.op = "search"
     /\ Len(LastMatched) < last.min_results
     /\ (last.answer \in {"raise", "none"} \/ last.tomtom_places = <<>>)) =>
        /\ last.ret = [success |-> TRUE, source |-> "database_only",
                       places |-> LastMatched, count |-> Len(LastMatched),
                       fallback_used |-> FALSE]
        /\ last.scrapes = 0
        /\ last.enrichments = 0
        /\ last.bulk_calls = 0
        /\ places = last.pre

C3_Witness ==
    /\ last.op = "search"
    /\ Len(LastMatched) = 1
    /\ last.min_results = 2
    /\ last.answer = "raise"
    /\ last.ret.source = "database_only"

\* C4: when the bulk insert raises while the new candidates are stored, the
\* search returns (it does not raise) success=false with the error text, an
\* empty places list and count 0.
C4_PersistenceFailure ==
    (last.op = "search" /\ last.bulk_raised) =>
        last.ret = [success |-> FALSE, error |-> "insert_many failed",
                    places |-> <<>>, count |-> 0]

C4_Witness ==
    /\ last.op = "search"
    /\ last.bulk_raised
    /\ Len(last.tomtom_places) = 2
    /\ last.ret.success = FALSE

----------------------------------------------------------------------------
(* Claims about the place controllers (specification SpecStore) *)

\* the documents of store filed under external id k
WithKey(store, k) == SelectSeq(store, LAMBDA d : d.original.fsq_id = k)

\* C5: when add_place or bulk_insert_places is called with a place whose
\* external id is already stored, the documents stored under that id are after
\* the call exactly those stored before it, field for field, and none of the
\* returned inserted ids belongs to a document with that id.
C5_InsertOrSkipNoOp ==
    last.op \in {"add_place", "bulk_insert_places"} =>
        \A i \in 1..Len(last.arg) :
            LET k == last.arg[i].original.fsq_id IN
            (k # "" /\ WithKey(last.pre, k) # <<>>) =>
                /\ WithKey(places, k) = WithKey(last.pre, k)
                /\ \A j \in 1..Len(places), r \in 1..Len(last.ret) :
                      places[j]._id = last.ret[r] => places[j].original.fsq_id # k

C5_Witness ==
    /\ last.op = "bulk_insert_places"
    /\ Len(last.arg) = 2
    /\ WithKey(last.pre, last.arg[1].original.fsq_id) # <<>>
    /\ last.arg[1] # place_doc(WithKey(last.pre, last.arg[1].original.fsq_id)[1])
    /\ Len(last.ret) = 1

\* C6: no two stored places share an external id, whatever sequence of
\* add_place and bulk_insert_places calls filled the store.
C6_StoreUnique ==
    \A i, j \in 1..Len(places) :
        i # j => places[i].original.fsq_id # places[j].original.fsq_id

\* C7: when add_place and bulk_insert_places calls for overlapping external
\* ids run at the same time, with their find_one checks and their inserts
\* interleaved in any order, the store never holds two places with the same
\* external id.
C7_ConcurrentUnique ==
    Cardinality({places[i].original.fsq_id : i \in 1..Len(places)}) = Len(places)

----------------------------------------------------------------------------
(* Claims about the review refiner (specifications SpecRefine and SpecFilter) *)

\* the elements of seq not in seen, each at its first occurrence
RECURSIVE Distinct(_, _)
Distinct(seq, seen) ==
    IF Len(seq) = 0 THEN <<>>
    ELSE IF Head(seq) \in seen THEN Distinct(Tail(seq), seen)
    ELSE <<Head(seq)>> \o Distinct(Tail(seq), seen \cup {Head(seq)})

\* the reviews accepted so far by the call, without repetitions, in the order
\* of their acceptance
Accepted == Distinct(refiner.accepted, {})

\* C8: a finished refine_reviews_with_llm call returned at most min_relevant
\* reviews; as soon as the accepted reviews, without repetitions, number
\* min_relevant after a pass, the call has finished and returned the first
\* min_relevant of them in acceptance order; and when it returned fewer than
\* min_relevant, it had made max_iterations passes, or had no fetch function,
\* or the fetch function raised or returned nothing.
C8_QuotaLaw ==
    refiner.pc \in {"loop", "fetch", "done"} =>
        /\ (refiner.pc = "done" => Len(refiner.ret) <= refiner.min_relevant_reviews)
        /\ (refiner.passes >= 1 /\ Len(Accepted) >= refiner.min_relevant_reviews =>
                /\ refiner.pc = "done"
                /\ refiner.ret = SubSeq(Accepted, 1, refiner.min_relevant_reviews))
        /\ (refiner.pc = "done" /\ Len(refiner.ret) < refiner.min_relevant_reviews =>
                \/ refiner.passes >= refiner.max_iterations
                \/ ~refiner.has_fetch
                \/ refiner.last_fetch \in {"raise", "empty"})

C8_Witness ==
    /\ refiner.pc = "done"
    /\ refiner.passes = 2
    /\ refiner.min_relevant_reviews = 2
    /\ Len(Accepted) = 3
    /\ Len(refiner.ret) = 2

\* C9: the list a finished refine_reviews_with_llm call returned holds no
\* content twice, whether it returned from inside the loop or after it.
C9_NoDuplicates ==
    refiner.pc = "done" =>
        \A i, j \in 1..Len(refiner.ret) : i # j => refiner.ret[i] # refiner.ret[j]

C9_Witness ==
    /\ refiner.pc = "done"
    /\ refiner.passes = 2
    /\ Len(Accepted) < Len(refiner.accepted)
    /\ Len(refiner.ret) = 2
    /\ Len(refiner.ret) < refiner.min_relevant_reviews

\* the lines the filter reads from a response
AnswerLines(text) == Split(Strip(text), "\n")

\* the batch the p-th review is sent in, and its position in that batch
BatchOf(p) == ((p - 1) \div BatchSize) + 1
PosInBatch(p) == ((p - 1) % BatchSize) + 1

Returned(content) == \E k \in 1..Len(filt.ret) : filt.ret[k] = content

OccursOnce(p) ==
    \A q \in 1..Len(filt.reviews) : q # p => filt.reviews[q] # filt.reviews[p]

\* C10 as stated: every review of a batch whose request raised is returned,
\* and a review of another batch whose answer line is missing or is not
\* exactly YES is not returned.
C10_ExactlyYes ==
    filt.pc = "done" =>
        \A p \in 1..Len(filt.reviews) :
            LET answer == filt.answers[BatchOf(p)] IN
            IF answer.kind = "raise" THEN Returned(filt.reviews[p])
            ELSE (/\ OccursOnce(p)
                  /\ \/ PosInBatch(p) > Len(AnswerLines(answer.text))
                     \/ AnswerLines(answer.text)[PosInBatch(p)] # "YES")
                 => ~Returned(filt.reviews[p])

\* C10, amended: every review of a batch of up to 15 reviews whose request
\* raised is returned; a review of another batch is returned exactly when the
\* response to its own batch, trimmed, has a line at the review's position
\* that reads YES once trimmed and upper-cased; a review whose line is missing
\* or reads anything else is not returned.
C10_BatchFailurePolicy ==
    filt.pc = "done" =>
        \A p \in 1..Len(filt.reviews) :
            LET answer == filt.answers[BatchOf(p)] IN
            IF answer.kind = "raise" THEN Returned(filt.reviews[p])
            ELSE OccursOnce(p) =>
                 (Returned(filt.reviews[p]) <=>
                    /\ PosInBatch(p) <= Len(AnswerLines(answer.text))
                    /\ Upper(Strip(AnswerLines(answer.text)[PosInBatch(p)])) = "YES")

C10_Witness ==
    /\ filt.pc = "done"
    /\ Len(filt.reviews) = BatchSize + 2
    /\ \A p \in 1..Len(filt.reviews) : OccursOnce(p)
    /\ filt.answers[1].kind = "raise"
    /\ filt.answers[2] = Text("YES")
    /\ Len(filt.ret) = BatchSize + 1

\* C11: for every max_iterations >= 0, every gateway answer and every
\* behaviour of the fetch function, a refine_reviews_with_llm call makes at
\* most max_iterations classification passes and at most max_iterations - 1
\* calls of the fetch function (none when max_iterations is 0); every step of
\* an unfinished call either finishes it or is one more pass or one more
\* fetch, so the call finishes within that many steps; once the fetch function
\* has raised or returned nothing the call has finished; and a finished call
\* takes no further step.
C11_Termination ==
    /\ [](refiner.passes <= refiner.max_iterations)
    /\ [](refiner.fetches = 0 \/ refiner.fetches <= refiner.max_iterations - 1)
    /\ [](refiner.last_fetch \in {"raise", "empty"} => refiner.pc = "done")
    /\ [][refiner'.passes + refiner'.fetches = refiner.passes + refiner.fetches + 1
          \/ (refiner'.pc = "done" /\ refiner'.passes = refiner.passes
                                   /\ refiner'.fetches = refiner.fetches)]_vars
    /\ [][refiner.pc # "done"]_vars

C11_Witness ==
    /\ refiner.pc = "done"
    /\ refiner.max_iterations = MaxIterations
    /\ refiner.passes = MaxIterations
    /\ refiner.fetches = MaxIterations - 1
    /\ Len(refiner.ret) < refiner.min_relevant_reviews

----------------------------------------------------------------------------
(* Enrichment: claims about RAG/llm_processor.py *)

\* every review text is missing or made of white space only
AllBlank(reviews) ==
    \A i \in 1..Len(reviews) :
        "content" \in DOMAIN reviews[i] =>
            \A k \in 1..Len(reviews[i].content) : IsSpace(CharAt(reviews[i].content, k))

RestaurantTags == {"dining", "culinary", "social", "aesthetic"}

\* the tags of the four keyword groups a name is scanned for
KeywordTags ==
    {"cozy", "caffeinated", "dining", "culinary", "social", "nightlife", "outdoor", "nature"}

\* the names of EnrichNames that hold none of the keywords
MatchesNoKeyword(name) == name \in {"Unnamed Diner", ""}

Enriched == enr.op = "process_place_reviews"

TagSet(e) == {e.vibe_tags[i] : i \in 1..Len(e.vibe_tags)}

Populated(e) == e.summary # "" /\ Len(e.vibe_tags) > 0 /\ Len(e.emojis) > 0

\* C13: every result of process_place_reviews has a non-empty summary, at
\* least one vibe tag and at least one emoji, whatever the gateway answered.
C13_FullyPopulated == Enriched => Populated(enr.ret)

\* the same for the processed block of every place a search on the fallback
\* path hands to the store and returns
C13_PersistedPopulated ==
    last.op = "search" =>
        \A i \in 1..Len(last.new_places) : Populated(last.new_places[i].processed)

NoRepeat(lst) == \A i, j \in 1..Len(lst) : lst[i] = lst[j] => i = j

\* C14: every result of process_place_reviews, from the gateway's answer or
\* from the rules, has at most five vibe tags, no tag twice, and at most
\* three emojis.
C14_Limits ==
    Enriched =>
        /\ Len(enr.ret.vibe_tags) <= 5
        /\ NoRepeat(enr.ret.vibe_tags)
        /\ Len(enr.ret.emojis) <= 3

\* C15: two calls of _get_default_processing with the same name and the same
\* category return the same summary, the same vibe tags in the same order and
\* the same emojis.
C15_SameResult ==
    enr.op = "_get_default_processing" /\ enr.n = 2 => enr.again = enr.ret

\* the same for two calls made by one server process
C15_SameProcess ==
    [][/\ enr.op = "_get_default_processing" /\ enr.n = 1
       /\ enr'.op = "_get_default_processing" /\ enr'.n = 2
       /\ enr.seed = hashSeed
       => enr'.again = enr'.ret]_vars

\* the exceptions of EnrichBehaviours that come from the transport
TransportClass(answer) == answer \in {Timeout, Refused}

\* a received text without a JSON object in it
Unparsable(t) == ~t.open \/ ~t.close \/ t.data = JsonInvalid

\* the answer the call ends on: the retry's when the first request failed in
\* the transport, else the first
FinalAnswer(calls) == IF TransportClass(calls[1]) THEN calls[2] ELSE calls[1]

LLMFailed ==
    /\ Enriched
    /\ ~AllBlank(enr.reviews)
    /\ \/ FinalAnswer(enr.calls).kind = "raise"
       \/ Unparsable(FinalAnswer(enr.calls).text)

\* C16: when the LLM path fails, by an error of the gateway after any retry
\* or by a response that cannot be parsed, process_place_reviews returns the
\* rule-based result for the name and category it was called with.
C16_OwnFallback ==
    LLMFailed =>
        enr.ret = _get_default_processing(enr.place_name, enr.place_category, enr.seed)

\* the same for the failures that raise: an error of the gateway
C16_RaisedFallback ==
    LLMFailed /\ FinalAnswer(enr.calls).kind = "raise" =>
        enr.ret = _get_default_processing(enr.place_name, enr.place_category, enr.seed)

\* C17: process_place_reviews sends at most two requests to the gateway; it
\* sends the second only after the first raised an error of the transport,
\* and sends it with temperature 0.1; a response that was received, parsable
\* or not, is never followed by a second request; and the call returns an
\* Enrichment in every case.
C17_Retry ==
    Enriched =>
        /\ Len(enr.requests) <= 2
        /\ Len(enr.requests) = 2 =>
              /\ TransportClass(enr.calls[1])
              /\ enr.requests[2] = "0.1"
        /\ (~AllBlank(enr.reviews) /\ enr.calls[1].kind = "text") => Len(enr.requests) = 1
        /\ DOMAIN enr.ret = {"summary", "vibe_tags", "emojis"}

C17_Witness ==
    /\ Enriched
    /\ enr.calls[1] = Timeout
    /\ Unparsable(enr.calls[2].text)
    /\ enr.requests = <<"0.7", "0.1">>


----------------------------------------------------------------------------
(* Intent classification and dispatch: claims about RAG/intent_classifier.py
   and RAG/flow_controller.py *)

Intents == {"place_search", "place_detail", "simple_response"}

Asked == flow.op = "process_query"

\* the query is a text and the gateway raised, or answered with something
\* that is not a JSON object
KeywordPath ==
    /\ Asked
    /\ flow.user_query # NotText
    /\ (flow.answer.kind = "raise" \/ flow.answer.json \in {"invalid", "other"})

ObjectPath == Asked /\ flow.answer.kind = "text" /\ flow.answer.json = "object"

IntentOf(result) == Get(result, "intent", None)

C18_WitnessKeyword ==
    /\ KeywordPath
    /\ flow.answer.kind = "text"
    /\ flow.answer.json = "other"
    /\ IntentOf(flow.intent_result) = "place_detail"

\* C19: "coffee shops in Delhi" is classified as place_search with city Delhi
\* and a coffee category, on the keyword path too; the keyword path tries the
\* simple-response keywords first, then the place-detail phrases, and takes
\* place_search otherwise.
C19_CoffeeShopsInDelhi ==
    KeywordPath =>
        /\ flow.user_query = "coffee shops in Delhi" =>
              /\ IntentOf(flow.intent_result) = "place_search"
              /\ flow.intent_result.extracted_data.city = "Delhi"
              /\ flow.intent_result.extracted_data.category = "coffee"
        /\ IntentOf(flow.intent_result) =
              (IF simple_keywords(Lower(flow.user_query)) THEN "simple_response"
               ELSE IF detail_keywords(Lower(flow.user_query)) THEN "place_detail"
               ELSE "place_search")

\* the order of the three tests alone
C19_Precedence ==
    KeywordPath =>
        IntentOf(flow.intent_result) =
            (IF simple_keywords(Lower(flow.user_query)) THEN "simple_response"
             ELSE IF detail_keywords(Lower(flow.user_query)) THEN "place_detail"
             ELSE "place_search")

\* extracted_data is an object, or absent, and holds no place name
PlaceNameMissing ==
    LET extracted_data == Get(flow.intent_result, "extracted_data", EmptyDict) IN
    /\ ~IsNull(extracted_data)
    /\ Get(extracted_data, "place_name", None) \in {None, ""}

HasEnrichment(place) ==
    Len(place.processed.vibe_tags) > 0 /\ place.processed.summary # ""

SameEnrichment(entry, place) ==
    /\ entry.vibe_tags = place.processed.vibe_tags
    /\ entry.emojis = place.processed.emojis
    /\ entry.summary = place.processed.summary

\* the handler ran its search and answered from what the search found
Served(intent) ==
    Asked /\ flow.searches = 1 /\ flow.ret.success /\ flow.ret.intent = intent

Found == Get(last.ret, "places", <<>>)

\* C21: a found place that carries tags and a summary is not enriched and is
\* answered with its stored tags, emojis and summary; every other place the
\* handler answers with is enriched exactly once: each found place in the
\* place_search handler, the first found place in the place_detail handler.
C21_EnrichmentSkip ==
    /\ Served("place_search") =>
          /\ Len(flow.ret.places) = Len(Found)
          /\ \A i \in 1..Len(Found) :
                HasEnrichment(Found[i]) => SameEnrichment(flow.ret.places[i], Found[i])
          /\ flow.enrichments = Cardinality({i \in 1..Len(Found) : ~HasEnrichment(Found[i])})
    /\ Served("place_detail") /\ Len(Found) > 0 =>
          /\ HasEnrichment(Found[1]) => SameEnrichment(flow.ret.place, Found[1])
          /\ flow.enrichments = (IF HasEnrichment(Found[1]) THEN 0 ELSE 1)

C21_Witness ==
    /\ Served("place_search")
    /\ Len(Found) = 2
    /\ ~HasEnrichment(Found[1])
    /\ HasEnrichment(Found[2])
    /\ flow.enrichments = 1
    /\ SameEnrichment(flow.ret.places[2], Found[2])

C21_WitnessDetail ==
    /\ Served("place_detail")
    /\ Len(Found) > 0
    /\ HasEnrichment(Found[1])
    /\ flow.enrichments = 0


\* the handler that belongs to an intent
HandlerOf(intent) ==
    IF intent \in Intents THEN "_handle_" \o intent ELSE "_handle_unknown_intent"

\* the texts the failure responses carry
FailureTexts ==
    { "I'm sorry, I couldn't understand your request. Please try again.",
      "I'm sorry, I couldn't search for places right now. Please try again later.",
      "I'm sorry, I couldn't get details for that place right now. Please try again later.",
      "Please specify which place you'd like to know more about.",
      "Hello! How can I help you find places today?",
      _handle_unknown_intent("").response }

\* C22: process_query returns, for every query and whatever the classifier,
\* the search and the enrichment do, a response with a boolean success and a
\* text for the user, a failure carrying one of the fixed texts; when the
\* classifier returned, the one handler that ran is the handler of the intent,
\* whatever the confidence; when the classifier raised, no handler ran.
C22_HandlerBoundary ==
    Asked =>
        /\ flow.ret.success \in BOOLEAN
        /\ Len(flow.ret.response) > 0
        /\ ~flow.ret.success => flow.ret.response \in FailureTexts
        /\ flow.handler = (IF IsRaise(flow.intent_result) THEN "none"
                           ELSE HandlerOf(IntentOf(flow.intent_result)))

C22_Witness ==
    /\ Asked
    /\ flow.user_query = NotText
    /\ IsRaise(flow.intent_result)
    /\ flow.handler = "none"
    /\ flow.ret.error = "Failed to process query"

\* a place_search of low confidence is served as a place_search
C22_WitnessConfidence ==
    /\ Served("place_search")
    /\ flow.intent_result.confidence = "0.1"
    /\ flow.handler = "_handle_place_search"
    /\ Len(flow.ret.places) > 0


\* the place_search handler called the search
Searched ==
    Asked /\ flow.handler = "_handle_place_search" /\ flow.searches = 1

CityOf(result) == Get(result.extracted_data, "city", None)

CategoryOf(result) == Get(result.extracted_data, "category", None)

\* C23: the place_search handler calls the search with min_results 5, with
\* city Delhi when the intent carries no city (absent or null) and with
\* category restaurant when it carries no category.
C23_Defaults ==
    Searched =>
        /\ last.min_results = 5
        /\ last.city = (IF CityOf(flow.intent_result) = None THEN "Delhi"
                        ELSE CityOf(flow.intent_result))
        /\ last.category = (IF CategoryOf(flow.intent_result) \in {None, ""} THEN "restaurant"
                            ELSE CategoryOf(flow.intent_result))

\* the same with the city default for an absent city field only
C23_DefaultsAbsentCity ==
    Searched =>
        /\ last.min_results = 5
        /\ last.city = (IF "city" \notin DOMAIN flow.intent_result.extracted_data THEN "Delhi"
                        ELSE CityOf(flow.intent_result))
        /\ last.category = (IF CategoryOf(flow.intent_result) \in {None, ""} THEN "restaurant"
                            ELSE CategoryOf(flow.intent_result))

C23_WitnessAbsentCity ==
    /\ Searched
    /\ "city" \notin DOMAIN flow.intent_result.extracted_data
    /\ last.city = "Delhi"
    /\ last.category = "restaurant"

\* C24: when the search a handler called returns success = false, the
\* response of process_query has success = false.
C24_FailureVisible ==
    Asked /\ flow.searches = 1 /\ ~last.ret.success => ~flow.ret.success

\* a search that asked Reddit about at least one named candidate
Scraped == last # NoCall /\ last.op = "search" /\ last.scrapes > 0

\* C25: when Reddit answers successfully with no usable review, every name is
\* mapped to the empty list; the placeholder reviews appear only when the
\* request failed.
C25_EmptyWhenNoneUsable ==
    Scraped /\ last.reddit = [kind |-> "ok", reviews |-> <<>>] =>
        \A n \in DOMAIN last.reddit_reviews : last.reddit_reviews[n] = <<>>

\* what the code does in that case: the entry is the placeholder list
C25_MockWhenNoneUsable ==
    Scraped /\ last.reddit = [kind |-> "ok", reviews |-> <<>>] =>
        \A n \in DOMAIN last.reddit_reviews :
            last.reddit_reviews[n] = _get_mock_reviews(n, last.city, 5)

C25_WitnessNoneUsable ==
    /\ Scraped
    /\ last.reddit = [kind |-> "ok", reviews |-> <<>>]
    /\ DOMAIN last.reddit_reviews = {"Joe"}

\* C26: a call eventually returns even when one provider never answers.
C26_EventuallyReturns == (req # NoRequest) ~> (req.pc = "returned")

\* what the timeouts do give: a call whose silent provider is the review
\* source or the LLM (or none) returns
C26_ReturnsWhenTimed ==
    (req # NoRequest /\ req.silent \in {"review source", "LLM", "none"})
        ~> (req.pc = "returned")

\* the call is stuck: the provider of the outstanding request is silent and
\* the request has no timeout
C26_Stuck ==
    /\ Waiting(req)
    /\ ProviderOf(req.pc) = req.silent
    /\ TimeoutOf(req.pc) = NoTimeout

\* the search recorded in last filled the cache: success, fallback_used and
\* a count of at least min_results
Filled(log) ==
    /\ log # NoCall
    /\ log.op = "search"
    /\ log.ret.success
    /\ Get(log.ret, "fallback_used", FALSE)
    /\ log.ret.count >= log.min_results

\* C27: the search repeated right after a search that filled the cache finds
\* at least min_results matches in the store and returns source = database
\* without asking the place-search provider.
C27_Convergence ==
    [][Filled(last) /\ last' # last =>
          /\ Len(last'.existing) >= last'.min_results
          /\ last'.ret.source = "database"
          /\ last'.asked = <<>>]_vars

\* a repeated search that was served from the store
C27_WitnessCached ==
    /\ last # NoCall
    /\ last.pre # <<>>
    /\ last.ret.success
    /\ last.ret.source = "database"

\* a repeated search that asked the provider again
C27_AskedAgain ==
    /\ last # NoCall
    /\ last.pre # <<>>
    /\ Len(last.asked) = 1

\* a search that went through _transform_and_store_places_with_llm and
\* returned what it returned
Transformed ==
    /\ last # NoCall
    /\ last.op = "search"
    /\ last.bulk_calls = 1
    /\ ~last.bulk_raised

\* the place stored under external id fsq, if any
StoredAs(store, fsq) == \E k \in 1..Len(store) : store[k].original.fsq_id = fsq

\* C28, first part: one document per candidate, in candidate order, whose
\* processed fields are the enrichment entry under the candidate's name and
\* whose reviews are the review-map entry under that name.
C28_OnePerCandidate ==
    Transformed =>
        /\ Len(last.new_places) = Len(last.tomtom_places)
        /\ \A i \in 1..Len(last.new_places) :
             LET place == last.tomtom_places[i]
                 doc   == last.new_places[i]
                 entry == Get(last.processed_data, place.name, <<>>)
             IN  /\ doc.original.fsq_id = place.fsq_id
                 /\ doc.original.name = place.name
                 /\ doc.processed.vibe_tags = Get(entry, "vibe_tags", <<>>)
                 /\ doc.processed.emojis = Get(entry, "emojis", <<>>)
                 /\ doc.processed.summary = Get(entry, "summary", "")
                 /\ doc.reviews = Get(last.reddit_reviews, place.name, <<>>)

\* C28, second part: every returned place has been written to the store by
\* this call or was already stored under the same external id.
C28_Stored ==
    Transformed =>
        \A i \in 1..Len(last.new_places) :
            StoredAs(places, last.new_places[i].original.fsq_id)

\* a returned place that is not in the store
C28_WitnessNotStored ==
    /\ Transformed
    /\ \E i \in 1..Len(last.new_places) :
          ~StoredAs(places, last.new_places[i].original.fsq_id)

\* the external ids of the places a search returned
ReturnedIds == [i \in 1..Len(last.ret.places) |-> last.ret.places[i].original.fsq_id]

\* C29: the places of a successful search hold no two places with the same
\* external id.
C29_DistinctIds ==
    last # NoCall /\ last.op = "search" /\ last.ret.success =>
        \A i, j \in 1..Len(ReturnedIds) : i # j => ReturnedIds[i] # ReturnedIds[j]

\* the same for the places that carry an external id
C29_DistinctKnownIds ==
    last # NoCall /\ last.op = "search" /\ last.ret.success =>
        \A i, j \in 1..Len(ReturnedIds) :
            i # j /\ ReturnedIds[i] # "" => ReturnedIds[i] # ReturnedIds[j]

\* a cached match returned together with the provider's candidate of the
\* same external id
C29_WitnessCachedTwice ==
    /\ last # NoCall
    /\ last.op = "search"
    /\ last.ret.success
    /\ \E i \in 1..Len(last.existing), j \in 1..Len(last.new_places) :
          last.existing[i].original.fsq_id = last.new_places[j].original.fsq_id

\* a finished call of the refiner made as RedditScraper makes it: for a
\* non-empty list of scraped reviews and with its fetch function
RefinedByScraper ==
    /\ refiner.pc = "done"
    /\ refiner.has_fetch
    /\ Len(refiner.initial_reviews) > 0

\* what RedditScraper._refine_reviews_with_llm returns for that call
RefinedReviews ==
    _refine_reviews_with_llm(ScrapedReviews(refiner.initial_reviews), refiner.ret)

C30_OnePerScrapedContent ==
    RefinedByScraper =>
        LET known == SelectSeq(refiner.ret,
                         LAMBDA c : c \in SeqRange(refiner.initial_reviews))
        IN  /\ Len(RefinedReviews) = Len(known)
            /\ \A i \in 1..Len(known) : RefinedReviews[i].content = known[i]

\* the call as RedditScraper wires it: the refiner calls the fetch function
\* with city alone (its **fetch_kwargs), _fetch_more_reviews requires
\* place_name as well, so every fetch ends in a TypeError, which line 210
\* catches; then every returned content is one the scraper started with
C30_AsWired ==
    RefinedByScraper /\ refiner.last_fetch \in {"none", "raise"} =>
        /\ Len(RefinedReviews) = Len(refiner.ret)
        /\ \A i \in 1..Len(refiner.ret) : RefinedReviews[i].content = refiner.ret[i]

\* the refiner returned a content it obtained through the fetch function
C30_WitnessFetched ==
    /\ RefinedByScraper
    /\ refiner.fetches > 0
    /\ \E i \in 1..Len(refiner.ret) :
          refiner.ret[i] \notin SeqRange(refiner.initial_reviews)


============================================================================
